---- MODULE Spec2Model ----
(***************************************************************************)
(* GHOST NETWORK simulation engine (src/src/simulation/engine.js) over the *)
(* reference tables of src/src/data/models.js, with the globe              *)
(* (src/src/visualization/globe.js), the UI controller                     *)
(* (src/unnamed/part_000) and the demo (src/src/main.js) that drive it.    *)
(*                                                                         *)
(* Numbers.  A JavaScript number is modelled as a record [k, m, e]:        *)
(*   k = "fin"   the decimal floating-point number m * 10^e, m an integer  *)
(*               of at most 8 digits without trailing zeros (0 is m = 0,   *)
(*               e = 0), so that equal numbers are equal records           *)
(*   k = "inf"   +Infinity (m = 1) or -Infinity (m = -1)                   *)
(*   k = "nan"   NaN                                                       *)
(*   k = "undef" the value undefined (an array read out of range)          *)
(* Every operation rounds its result to 8 significant digits, as an IEEE   *)
(* double rounds to 53 bits; the special values are JavaScript's.          *)
(* Coordinates are integers in units of 1e-4 degree.                       *)
(***************************************************************************)
EXTENDS Integers, Sequences, FiniteSets, TLC

\* How far outside 0..23 the hours handed to configure() range.
HourSlack == 1
\* At most this many of the four keys are supplied in one configure() call.
MaxSupplied == 1

------------------------------------------------------------------------------
(* Numbers *)

Abs(x) == IF x < 0 THEN 0 - x ELSE x

Sgn(x) == IF x < 0 THEN 0 - 1 ELSE IF x > 0 THEN 1 ELSE 0

RECURSIVE Pow10(_)
Pow10(k) == IF k <= 0 THEN 1 ELSE 10 * Pow10(k - 1)

\* the mantissa holds at most 8 decimal digits: |m| < MaxMantissa
MaxMantissa == Pow10(8)

RECURSIVE Strip(_, _)
\* m * 10^e without trailing zeros in m
Strip(m, e) ==
  IF m = 0 THEN [k |-> "fin", m |-> 0, e |-> 0]
  ELSE IF m % 10 = 0 THEN Strip(m \div 10, e + 1)
  ELSE [k |-> "fin", m |-> m, e |-> e]

\* the number m * 10^e for a 32-bit m, rounded to 8 digits (halves away from
\* zero)
Dec(m, e) ==
  LET x == Abs(m)
  IN  IF x >= 10 * MaxMantissa
      THEN Strip(Sgn(m) * ((x \div 10 + 5) \div 10), e + 2)
      ELSE IF x >= MaxMantissa
      THEN Strip(Sgn(m) * ((x + 5) \div 10), e + 1)
      ELSE Strip(m, e)

Num(n) == Dec(n, 0)

NaN == [k |-> "nan", m |-> 0, e |-> 0]

Undef == [k |-> "undef", m |-> 0, e |-> 0]

Inf(s) == [k |-> "inf", m |-> s, e |-> 0]

IsFin(x) == x.k = "fin"

NotANumber(x) == x.k \in {"nan", "undef"}

\* sign of a number that is not NaN/undefined
NumSgn(x) == Sgn(x.m)

RECURSIVE Widen(_, _, _)
\* x * 10^e, x > 0, with x scaled up to at least `least`
Widen(x, e, least) == IF x >= least THEN << x, e >> ELSE Widen(x * 10, e - 1, least)

\* the product of two positive mantissas that does not fit 32 bits, to 8 digits
MulWide(x, ex, y, ey) ==
  LET a == Widen(x, ex, MaxMantissa \div 10)
      b == Widen(y, ey, MaxMantissa \div 10)
      x1 == a[1] \div 10000
      x0 == a[1] % 10000
      y1 == b[1] \div 10000
      y0 == b[1] % 10000
      high == x1 * y1
      low == x1 * y0 + x0 * y1 + (x0 * y0) \div 10000
  IN  IF high < MaxMantissa \div 10
      THEN Dec(high * 10 + (low + 500) \div 1000, a[2] + b[2] + 7)
      ELSE Dec(high + (low + 5000) \div 10000, a[2] + b[2] + 8)

\* a * b
Mul(a, b) ==
  IF NotANumber(a) \/ NotANumber(b) THEN NaN
  ELSE IF a.k = "inf" \/ b.k = "inf"
       THEN IF NumSgn(a) * NumSgn(b) = 0 THEN NaN ELSE Inf(NumSgn(a) * NumSgn(b))
  ELSE IF a.m = 0 \/ b.m = 0 THEN Num(0)
  ELSE IF Abs(a.m) <= 2147483647 \div Abs(b.m) THEN Dec(a.m * b.m, a.e + b.e)
  ELSE LET p == MulWide(Abs(a.m), a.e, Abs(b.m), b.e)
       IN  [p EXCEPT !.m = Sgn(a.m) * Sgn(b.m) * p.m]

\* m * 10^(e - to) rounded to an integer, for |m| < 10 * MaxMantissa
Shift(m, e, to) ==
  IF e >= to THEN m * Pow10(e - to)
  ELSE IF to - e > 9 THEN 0
  ELSE Sgn(m) * ((2 * Abs(m) + Pow10(to - e)) \div (2 * Pow10(to - e)))

\* the sum of two finite numbers, |a| >= |b|, a # 0
AddOrdered(a, b) ==
  LET w == Widen(Abs(a.m), a.e, MaxMantissa)
  IN  Dec(Sgn(a.m) * w[1] + Shift(b.m, b.e, w[2]), w[2])

\* |a| >= |b| for finite a, b
MagnitudeGeq(a, b) ==
  IF b.m = 0 THEN TRUE
  ELSE IF a.m = 0 THEN FALSE
  ELSE LET wa == Widen(Abs(a.m), a.e, MaxMantissa \div 10)
           wb == Widen(Abs(b.m), b.e, MaxMantissa \div 10)
       IN  wa[2] > wb[2] \/ (wa[2] = wb[2] /\ wa[1] >= wb[1])

\* a + b
Add(a, b) ==
  IF NotANumber(a) \/ NotANumber(b) THEN NaN
  ELSE IF a.k = "inf" /\ b.k = "inf" THEN IF a.m = b.m THEN a ELSE NaN
  ELSE IF a.k = "inf" THEN a
  ELSE IF b.k = "inf" THEN b
  ELSE IF a.m = 0 THEN b
  ELSE IF b.m = 0 THEN a
  ELSE IF MagnitudeGeq(a, b) THEN AddOrdered(a, b) ELSE AddOrdered(b, a)

Neg(a) == IF a.k \in {"fin", "inf"} THEN [a EXCEPT !.m = 0 - a.m] ELSE a

\* a - b
Sub(a, b) == Add(a, Neg(b))

RECURSIVE DivDigits(_, _, _, _)
\* the quotient q (so far) continued digit by digit from the remainder r
DivDigits(q, r, y, e) ==
  IF r = 0 \/ q >= MaxMantissa THEN Dec(q, e)
  ELSE DivDigits(q * 10 + (r * 10) \div y, (r * 10) % y, y, e - 1)

\* a / b, with JavaScript's results for a zero divisor
Div(a, b) ==
  IF NotANumber(a) \/ NotANumber(b) THEN NaN
  ELSE IF a.k = "inf" /\ b.k = "inf" THEN NaN
  ELSE IF a.k = "inf" THEN Inf(a.m * (IF b.m < 0 THEN 0 - 1 ELSE 1))
  ELSE IF b.k = "inf" THEN Num(0)
  ELSE IF b.m = 0 THEN (IF a.m = 0 THEN NaN ELSE Inf(Sgn(a.m)))
  ELSE LET q == DivDigits(Abs(a.m) \div Abs(b.m), Abs(a.m) % Abs(b.m), Abs(b.m),
                          a.e - b.e)
       IN  [q EXCEPT !.m = Sgn(a.m) * Sgn(b.m) * q.m]

\* a < b (false when either side is NaN)
Less(a, b) ==
  IF NotANumber(a) \/ NotANumber(b) THEN FALSE
  ELSE IF a.k = "inf" THEN a.m < 0 /\ ~(b.k = "inf" /\ b.m < 0)
  ELSE IF b.k = "inf" THEN b.m > 0
  ELSE NumSgn(Sub(a, b)) < 0

\* a > 0
Positive(a) == Less(Num(0), a)

\* a <= b
Leq(a, b) == Less(a, b) \/ (a.k \in {"fin", "inf"} /\ a = b)

\* Math.min(a, b)
MathMin(a, b) ==
  IF NotANumber(a) \/ NotANumber(b) THEN NaN
  ELSE IF Less(b, a) THEN b ELSE a

\* Number.prototype.toFixed(digits), as the number it prints (halves up)
ToFixed(a, digits) ==
  IF ~IsFin(a) THEN (IF a.k = "undef" THEN NaN ELSE a)
  ELSE IF a.e >= 0 - digits THEN a
  ELSE IF (0 - digits) - a.e > 9 THEN Num(0)
  ELSE LET p == Pow10((0 - digits) - a.e)
       IN  Dec((2 * a.m + p) \div (2 * p), 0 - digits)

\* Math.round(a): to the nearest integer, halves up
MathRound(a) == ToFixed(a, 0)

\* truthiness of a number: 0, NaN and undefined are falsy
Truthy(a) == ~NotANumber(a) /\ a.m # 0

------------------------------------------------------------------------------
(* Reference tables: src/src/data/models.js *)

Coord(lat, lng) == [lat |-> lat, lng |-> lng]

CITIES ==
  [barcelona |-> [id |-> "barcelona", name |-> "Barcelona",
                  coords |-> Coord(413851, 21734), defaultDatacenter |-> "ireland"],
   lagos     |-> [id |-> "lagos", name |-> "Lagos",
                  coords |-> Coord(65244, 33792), defaultDatacenter |-> "singapore"],
   phoenix   |-> [id |-> "phoenix", name |-> "Phoenix",
                  coords |-> Coord(334484, 0 - 1120740), defaultDatacenter |-> "arizona"],
   dublin    |-> [id |-> "dublin", name |-> "Dublin",
                  coords |-> Coord(533498, 0 - 62603), defaultDatacenter |-> "ireland"]]

Source(name, lat, lng, type) == [name |-> name, coords |-> Coord(lat, lng), type |-> type]

Arizona ==
  [id |-> "arizona", name |-> "Arizona Hyperscale", location |-> "Phoenix, Arizona",
   coords |-> Coord(333942, 0 - 1119261),
   energy |->
     [gridMix |-> [natural_gas |-> Dec(35, 0 - 2), coal |-> Dec(10, 0 - 2), nuclear |-> Dec(28, 0 - 2),
                   solar |-> Dec(15, 0 - 2), wind |-> Dec(7, 0 - 2), hydro |-> Dec(5, 0 - 2)],
      pue |-> Dec(125, 0 - 2),
      carbonIntensity |-> Num(385),
      sources |-> << Source("Palo Verde Nuclear", 333886, 0 - 1128615, "nuclear"),
                     Source("Gila River Gas Plant", 330589, 0 - 1126854, "gas"),
                     Source("Solana Solar", 329297, 0 - 1129798, "solar") >>],
   water |->
     [source |-> "Colorado River Basin / Central Arizona Project",
      sourceCoords |-> Coord(360161, 0 - 1147377),
      stressLevel |-> "extreme", wue |-> Dec(18, 0 - 1),
      aquiferDepletion |-> Dec(42, 0 - 2), annualWithdrawal |-> Dec(25, 8)],
   climate |-> [avgTemp |-> 35, coolingDays |-> 280, heatPenalty |-> Dec(14, 0 - 1)]]

Finland ==
  [id |-> "finland", name |-> "Nordic Green DC", location |-> "Hamina, Finland",
   coords |-> Coord(605693, 271878),
   energy |->
     [gridMix |-> [nuclear |-> Dec(33, 0 - 2), hydro |-> Dec(22, 0 - 2), wind |-> Dec(15, 0 - 2),
                   biomass |-> Dec(12, 0 - 2), natural_gas |-> Dec(10, 0 - 2), coal |-> Dec(5, 0 - 2),
                   peat |-> Dec(3, 0 - 2)],
      pue |-> Dec(110, 0 - 2),
      carbonIntensity |-> Num(120),
      sources |-> << Source("Olkiluoto Nuclear", 612354, 214424, "nuclear"),
                     Source("Baltic Wind Farm", 601699, 249384, "wind") >>],
   water |->
     [source |-> "Baltic Sea (seawater cooling)",
      sourceCoords |-> Coord(604000, 270000),
      stressLevel |-> "low", wue |-> Num(0),
      aquiferDepletion |-> Num(0), annualWithdrawal |-> Num(0)],
   climate |-> [avgTemp |-> 5, coolingDays |-> 45, heatPenalty |-> Dec(85, 0 - 2)]]

Singapore ==
  [id |-> "singapore", name |-> "Equinix SG Hub", location |-> "Singapore",
   coords |-> Coord(13521, 1038198),
   energy |->
     [gridMix |-> [natural_gas |-> Dec(95, 0 - 2), solar |-> Dec(3, 0 - 2), other |-> Dec(2, 0 - 2)],
      pue |-> Dec(155, 0 - 2),
      carbonIntensity |-> Num(420),
      sources |-> << Source("Jurong Island Gas Plants", 12653, 1036990, "gas"),
                     Source("Sembcorp LNG", 12456, 1037105, "lng") >>],
   water |->
     [source |-> "NEWater (recycled) + Imported from Malaysia",
      sourceCoords |-> Coord(14472, 1037867),
      stressLevel |-> "high", wue |-> Dec(22, 0 - 1),
      aquiferDepletion |-> Num(0), annualWithdrawal |-> Dec(18, 8)],
   climate |-> [avgTemp |-> 31, coolingDays |-> 365, heatPenalty |-> Dec(155, 0 - 2)]]

Ireland ==
  [id |-> "ireland", name |-> "Dublin Cloud Campus", location |-> "Dublin, Ireland",
   coords |-> Coord(534055, 0 - 63725),
   energy |->
     [gridMix |-> [wind |-> Dec(35, 0 - 2), natural_gas |-> Dec(48, 0 - 2), coal |-> Dec(6, 0 - 2),
                   hydro |-> Dec(3, 0 - 2), peat |-> Dec(5, 0 - 2), solar |-> Dec(3, 0 - 2)],
      pue |-> Dec(115, 0 - 2),
      carbonIntensity |-> Num(295),
      sources |-> << Source("Arklow Wind Farm", 527945, 0 - 60051, "wind"),
                     Source("Dublin Bay Gas", 533331, 0 - 61245, "gas") >>],
   water |->
     [source |-> "River Liffey / Bohernabreena Reservoir",
      sourceCoords |-> Coord(532452, 0 - 63658),
      stressLevel |-> "moderate", wue |-> Dec(8, 0 - 1),
      aquiferDepletion |-> Dec(15, 0 - 2), annualWithdrawal |-> Dec(45, 7)],
   climate |-> [avgTemp |-> 10, coolingDays |-> 90, heatPenalty |-> Num(1)]]

\* the table with singapore's share of 'other' entered as 0.01
DatacentersWithGridGap ==
  [arizona |-> Arizona, finland |-> Finland,
   singapore |-> [Singapore EXCEPT !.energy.gridMix.other = Dec(1, 0 - 2)],
   ireland |-> Ireland]

DATACENTERS ==
  [arizona |-> Arizona, finland |-> Finland, singapore |-> Singapore, ireland |-> Ireland]

\* perSession carries the fields calculateElectricity reads; a field a workload
\* kind does not have is absent from its record.
WORKLOADS ==
  [chatbot   |-> [id |-> "chatbot", name |-> "AI Chatbot", intensity |-> "low",
                  perSession |-> [queries |-> Num(25), kwhPerQuery |-> Dec(29, 0 - 4)]],
   image     |-> [id |-> "image", name |-> "Image Generator", intensity |-> "high",
                  perSession |-> [images |-> Num(10), kwhPerImage |-> Dec(29, 0 - 3)]],
   traffic   |-> [id |-> "traffic", name |-> "Traffic AI", intensity |-> "medium",
                  perSession |-> [kwhPerHour |-> Dec(25, 0 - 1)]],
   biometric |-> [id |-> "biometric", name |-> "Biometric Security", intensity |-> "continuous",
                  perSession |-> [kwhPerHour |-> Dec(85, 0 - 1)]]]

Material(name, source, lat, lng) ==
  [name |-> name, source |-> source, sourceCoords |-> Coord(lat, lng)]

MATERIALS ==
  [cobalt    |-> Material("Cobalt", "Democratic Republic of Congo", 0 - 104167, 259167),
   lithium   |-> Material("Lithium", "Chile / Argentina / Australia", 0 - 238634, 0 - 674511),
   rareEarth |-> Material("Rare Earth Elements", "China (Bayan Obo)", 418000, 1099667),
   silicon   |-> Material("Silicon", "China (Xinjiang)", 417685, 861471),
   copper    |-> Material("Copper", "Chile / Peru", 0 - 224585, 0 - 689291)]

Site(name, lat, lng) == [name |-> name, coords |-> Coord(lat, lng)]

EWASTE ==
  [ghana    |-> Site("Agbogbloshie, Ghana", 55500, 0 - 2167),
   india    |-> Site("Seelampur, Delhi", 286842, 772656),
   china    |-> Site("Guiyu, China", 232958, 1163536),
   pakistan |-> Site("Karachi", 248607, 670011)]

\* Object.values(EWASTE): the table's values in insertion order
EWASTE_KEYS == << "ghana", "india", "china", "pakistan" >>

EMISSIONS_DRIFT ==
  [arizona   |-> [direction |-> "west-northwest",
                  destinations |-> << Site("California", 367783, 0 - 1194179),
                                      Site("Pacific Ocean", 320000, 0 - 1300000) >>],
   finland   |-> [direction |-> "east",
                  destinations |-> << Site("Russia", 615240, 1053188),
                                      Site("Arctic", 700000, 300000) >>],
   singapore |-> [direction |-> "north",
                  destinations |-> << Site("South China Sea", 150000, 1100000),
                                      Site("Vietnam Coast", 160544, 1082022) >>],
   ireland   |-> [direction |-> "east",
                  destinations |-> << Site("United Kingdom", 547024, 0 - 32766),
                                      Site("North Sea", 560000, 30000) >>]]

\* hundredths, hour 0 first
waterUsageByHour ==
  << 60, 50, 50, 50, 50, 60,  70, 80, 90, 100, 110, 120,
     130, 140, 150, 150, 140, 130,  110, 100, 90, 80, 70, 60 >>

carbonIntensityByHour ==
  << 110, 110, 110, 110, 105, 100,  95, 90, 85, 80, 75, 70,
     70, 70, 75, 80, 85, 90,  95, 100, 105, 110, 110, 110 >>

demandByHour ==
  << 70, 65, 60, 60, 65, 70,  80, 90, 100, 110, 115, 120,
     115, 110, 115, 120, 125, 120,  110, 100, 90, 85, 80, 75 >>

\* arr[i - 1]: the lookup one entry too early
IndexFromOne(arr, i) == IF i \in 1..Len(arr) THEN Dec(arr[i], 0 - 2) ELSE Undef

\* arr[i] of a JavaScript array of numbers: undefined outside 0..length-1
Index(arr, i) == IF i \in 0..(Len(arr) - 1) THEN Dec(arr[i + 1], 0 - 2) ELSE Undef

------------------------------------------------------------------------------
(* calculateDistance.  Angles and the trigonometric values are fixed-point  *)
(* integers in units of 1e-8 (FxOne is 1.0); sin, cos and atan are their    *)
(* Taylor series, sqrt is the integer square root.  The result is a number  *)
(* of kilometres with a resolution of one metre.                            *)

FxOne == 10000 * 10000

FxHalfPi == 157079633

\* a / b rounded toward zero, b > 0: the quotient of -a is minus that of a
Quot(a, b) == Sgn(a) * (Abs(a) \div b)

\* a * b / FxOne rounded to the nearest unit, without leaving 32 bits
FxMul(a, b) ==
  LET x == Abs(a)
      y == Abs(b)
      x1 == x \div 10000
      x0 == x % 10000
      y1 == y \div 10000
      y0 == y % 10000
  IN  Sgn(a) * Sgn(b) *
        (x1 * y1 + (x1 * y0 + x0 * y1 + (x0 * y0) \div 10000 + 5000) \div 10000)

RECURSIVE FxDivDigits(_, _, _, _)
FxDivDigits(r, b, q, digits) ==
  IF digits = 0 THEN q
  ELSE FxDivDigits((r * 10) % b, b, q * 10 + (r * 10) \div b, digits - 1)

\* a * FxOne / b for 0 <= a <= b, 0 < b <= 2 * FxOne
FxDiv(a, b) == FxDivDigits(a % b, b, a \div b, 8)

RECURSIVE ISqrtFrom(_, _)
ISqrtFrom(n, x) ==
  LET y == (x + n \div x) \div 2
  IN  IF y >= x THEN x ELSE ISqrtFrom(n, y)

\* floor of the square root of n >= 0
ISqrt(n) == IF n < 2 THEN n ELSE ISqrtFrom(n, n \div 2 + 1)

\* Math.sqrt of a fixed-point value in 0..FxOne
FxSqrt(a) ==
  IF a <= 21 THEN ISqrt(a * FxOne)
  ELSE IF a <= 2147 THEN ISqrt(a * 1000000) * 10
  ELSE IF a <= 214748 THEN ISqrt(a * 10000) * 100
  ELSE IF a <= 21474836 THEN ISqrt(a * 100) * 1000
  ELSE ISqrt(a) * 10000

\* sum of the series whose term after `term` is -term * x2 / (k * (k + 1)), ...
RECURSIVE FxSeries(_, _, _)
FxSeries(term, x2, k) ==
  IF term = 0 THEN 0
  ELSE term + FxSeries(IF Abs(term) <= 2 * FxOne
                       THEN Quot(0 - FxMul(term, x2), k * (k + 1))
                       ELSE 0 - FxMul(Quot(term, k * (k + 1)), x2),
                       x2, k + 2)

\* Math.sin(x), |x| <= pi
FxSin(x) == FxSeries(x, FxMul(x, x), 2)

\* Math.cos(x), |x| <= pi
FxCos(x) == FxSeries(FxOne, FxMul(x, x), 1)

\* sum of u - u^3/3 + u^5/5 - ..., from the power `pow` = u^k on
RECURSIVE FxAtanSeries(_, _, _)
FxAtanSeries(pow, u2, k) ==
  IF Quot(pow, k) = 0 THEN 0
  ELSE Quot(pow, k) + FxAtanSeries(0 - FxMul(pow, u2), u2, k + 2)

\* Math.atan(t) for 0 <= t <= 1
FxAtan(t) ==
  IF t > 41421356
  THEN LET u == 0 - FxDiv(FxOne - t, FxOne + t)
       IN  FxHalfPi \div 2 + FxAtanSeries(u, FxMul(u, u), 1)
  ELSE FxAtanSeries(t, FxMul(t, t), 1)

\* Math.atan2(y, x) for y >= 0, x >= 0, not both 0
FxAtan2(y, x) ==
  IF y <= x THEN FxAtan(FxDiv(y, x)) ELSE FxHalfPi - FxAtan(FxDiv(x, y))

\* deg * (Math.PI / 180), deg in 1e-4 degree: pi / 180 = 0.0174 53292520 rad
toRad(deg) == deg * 174 + FxMul(deg, 53292520)

\* Earth's radius in metres (R = 6371 km)
EarthRadiusM == 6371000

\* calculateDistance without the cosines of the latitudes
calculateDistanceWithoutCosines(coord1, coord2) ==
  LET dLat == toRad(coord2.lat - coord1.lat)
      dLng == toRad(coord2.lng - coord1.lng)
      sLat == FxSin(Quot(dLat, 2))
      sLng == FxSin(Quot(dLng, 2))
      a == FxMul(sLat, sLat) + FxMul(sLng, sLng)
  IN  IF a < 0 \/ a > FxOne THEN NaN
      ELSE LET c == 2 * FxAtan2(FxSqrt(a), FxSqrt(FxOne - a))
           IN  Dec(FxMul(c, EarthRadiusM), 0 - 3)

\* calculateDistance taking both cosines of coord1.lat
calculateDistanceOneLatitude(coord1, coord2) ==
  LET dLat == toRad(coord2.lat - coord1.lat)
      dLng == toRad(coord2.lng - coord1.lng)
      sLat == FxSin(Quot(dLat, 2))
      sLng == FxSin(Quot(dLng, 2))
      a == FxMul(sLat, sLat) +
           FxMul(FxMul(FxCos(toRad(coord1.lat)), FxCos(toRad(coord1.lat))),
                 FxMul(sLng, sLng))
  IN  IF a < 0 \/ a > FxOne THEN NaN
      ELSE LET c == 2 * FxAtan2(FxSqrt(a), FxSqrt(FxOne - a))
           IN  Dec(FxMul(c, EarthRadiusM), 0 - 3)

calculateDistance(coord1, coord2) ==
  LET dLat == toRad(coord2.lat - coord1.lat)
      dLng == toRad(coord2.lng - coord1.lng)
      sLat == FxSin(Quot(dLat, 2))
      sLng == FxSin(Quot(dLng, 2))
      a == FxMul(sLat, sLat) +
           FxMul(FxMul(FxCos(toRad(coord1.lat)), FxCos(toRad(coord2.lat))),
                 FxMul(sLng, sLng))
  IN  IF a < 0 \/ a > FxOne THEN NaN
      ELSE LET c == 2 * FxAtan2(FxSqrt(a), FxSqrt(FxOne - a))
           IN  Dec(FxMul(c, EarthRadiusM), 0 - 3)

------------------------------------------------------------------------------
(* The engine's calculations: src/src/simulation/engine.js.  Each takes the *)
(* configuration cfg = [city, workload, datacenter, hour] it reads through  *)
(* `this`; city, workload and datacenter are records of the reference       *)
(* tables, Null (constructor) or UndefinedObj (a failed table lookup).      *)

Null == [kind |-> "null"]

Throw(e) == [kind |-> "throw", error |-> e]

\* the value undefined where an object is expected
UndefinedObj == [kind |-> "undefined"]

IsUndefinedObj(x) == "kind" \in DOMAIN x /\ x.kind = "undefined"

\* !x for an object, null or undefined
Falsy(x) == x \in {Null, UndefinedObj}

\* table[key]: the record under that key, or undefined
Lookup(table, key) == IF key \in DOMAIN table THEN table[key] ELSE UndefinedObj

ConfigError == "Simulation not fully configured"

RECURSIVE FossilTotal(_, _)
FossilTotal(gridMix, fossilSources) ==
  IF fossilSources = << >> THEN Num(0)
  ELSE LET source == fossilSources[Len(fossilSources)]
           rest == FossilTotal(gridMix, SubSeq(fossilSources, 1, Len(fossilSources) - 1))
       IN  IF source \in DOMAIN gridMix /\ Truthy(gridMix[source])
           THEN Add(rest, gridMix[source])
           ELSE rest

\* calculateFossilPercent with 'peat' missing from fossilSources
calculateFossilPercentWithoutPeat(gridMix) ==
  Mul(FossilTotal(gridMix, << "natural_gas", "coal", "oil" >>), Num(100))

calculateFossilPercent(gridMix) ==
  Mul(FossilTotal(gridMix, << "natural_gas", "coal", "peat", "oil" >>), Num(100))

\* the base energy of one query or one image, not of the session
baseKwhOfOneUnit(workload) ==
  CASE workload.id = "chatbot" -> workload.perSession.kwhPerQuery
    [] workload.id = "image" -> workload.perSession.kwhPerImage
    [] workload.id = "traffic" -> workload.perSession.kwhPerHour
    [] workload.id = "biometric" -> workload.perSession.kwhPerHour
    [] OTHER -> Num(0)

baseKwhOf(workload) ==
  CASE workload.id = "chatbot" ->
         Mul(workload.perSession.queries, workload.perSession.kwhPerQuery)
    [] workload.id = "image" ->
         Mul(workload.perSession.images, workload.perSession.kwhPerImage)
    [] workload.id = "traffic" -> workload.perSession.kwhPerHour
    [] workload.id = "biometric" -> workload.perSession.kwhPerHour
    [] OTHER -> Num(0)

\* calculateElectricity without the climate heat penalty
calculateElectricityWithoutHeatPenalty(cfg) ==
  IF Falsy(cfg.workload) \/ Falsy(cfg.datacenter) THEN Null
  ELSE [kind |-> "ok",
        baseKwh |-> baseKwhOf(cfg.workload),
        withOverhead |->
          Mul(Mul(baseKwhOf(cfg.workload), cfg.datacenter.energy.pue),
              Index(demandByHour, cfg.hour)),
        pue |-> cfg.datacenter.energy.pue,
        heatPenalty |-> cfg.datacenter.climate.heatPenalty,
        gridMix |-> cfg.datacenter.energy.gridMix,
        fossilPercent |-> calculateFossilPercent(cfg.datacenter.energy.gridMix),
        sources |-> cfg.datacenter.energy.sources]

\* calculateElectricity with a guard that also asks for the city
calculateElectricityNeedingCity(cfg) ==
  IF Falsy(cfg.city) \/ Falsy(cfg.workload) \/ Falsy(cfg.datacenter) THEN Null
  ELSE [kind |-> "ok",
        baseKwh |-> baseKwhOf(cfg.workload),
        withOverhead |->
          Mul(Mul(Mul(baseKwhOf(cfg.workload), cfg.datacenter.energy.pue),
                  cfg.datacenter.climate.heatPenalty),
              Index(demandByHour, cfg.hour)),
        pue |-> cfg.datacenter.energy.pue,
        heatPenalty |-> cfg.datacenter.climate.heatPenalty,
        gridMix |-> cfg.datacenter.energy.gridMix,
        fossilPercent |-> calculateFossilPercent(cfg.datacenter.energy.gridMix),
        sources |-> cfg.datacenter.energy.sources]

calculateElectricity(cfg) ==
  IF Falsy(cfg.workload) \/ Falsy(cfg.datacenter) THEN Null
  ELSE LET workload == cfg.workload
           dc == cfg.datacenter
           hourModifier == Index(demandByHour, cfg.hour)
           baseKwh == baseKwhOf(workload)
           withPue == Mul(baseKwh, dc.energy.pue)
           withHeat == Mul(withPue, dc.climate.heatPenalty)
           final == Mul(withHeat, hourModifier)
       IN  [kind |-> "ok",
            baseKwh |-> baseKwh,
            withOverhead |-> final,
            pue |-> dc.energy.pue,
            heatPenalty |-> dc.climate.heatPenalty,
            gridMix |-> dc.energy.gridMix,
            fossilPercent |-> calculateFossilPercent(dc.energy.gridMix),
            sources |-> dc.energy.sources]

secondsPerYear == 365 * 24 * 3600

\* calculateWater without the time-of-day modifier on the liters
waterOfWithoutHourModifier(dc, electricity, hour) ==
  [kind |-> "ok",
   liters |-> Mul(electricity.withOverhead, dc.water.wue),
   wue |-> dc.water.wue,
   source |-> dc.water.source,
   sourceCoords |-> dc.water.sourceCoords,
   stressLevel |-> dc.water.stressLevel,
   aquiferDepletion |-> dc.water.aquiferDepletion,
   hourModifier |-> Index(waterUsageByHour, hour),
   litersPerSecond |-> Div(dc.water.annualWithdrawal, Num(secondsPerYear))]

\* calculateWater from `const hourModifier` on, given the electricity result
waterOf(dc, electricity, hour) ==
  LET hourModifier == Index(waterUsageByHour, hour)
      baseLiters == Mul(electricity.withOverhead, dc.water.wue)
      withTimeModifier == Mul(baseLiters, hourModifier)
  IN  [kind |-> "ok",
       liters |-> withTimeModifier,
       wue |-> dc.water.wue,
       source |-> dc.water.source,
       sourceCoords |-> dc.water.sourceCoords,
       stressLevel |-> dc.water.stressLevel,
       aquiferDepletion |-> dc.water.aquiferDepletion,
       hourModifier |-> hourModifier,
       litersPerSecond |-> Div(dc.water.annualWithdrawal, Num(secondsPerYear))]

\* `if (!electricity) return null` and the rest of calculateWater
waterFrom(dc, electricity, hour) ==
  IF electricity.kind = "null" THEN Null ELSE waterOf(dc, electricity, hour)

calculateWater(cfg) ==
  IF Falsy(cfg.datacenter) \/ Falsy(cfg.workload) THEN Null
  ELSE waterFrom(cfg.datacenter, calculateElectricity(cfg), cfg.hour)

sessionsPerYear == 365 * 24 * 4

\* EMISSIONS_DRIFT[dc.id]
driftOf(dc) == Lookup(EMISSIONS_DRIFT, dc.id)

\* calculateEmissions extrapolating with one session per hour of the year
emissionsOfHourlySessions(dc, adjustedIntensity, grams) ==
  [kind |-> "ok",
   grams |-> grams,
   carbonIntensity |-> adjustedIntensity,
   baseCarbonIntensity |-> dc.energy.carbonIntensity,
   drift |-> driftOf(dc),
   annualTonsCO2 |-> Div(Mul(grams, Num(365 * 24)), Num(1000000))]

\* calculateEmissions from `const grams` on
emissionsOf(dc, adjustedIntensity, grams) ==
  [kind |-> "ok",
   grams |-> grams,
   carbonIntensity |-> adjustedIntensity,
   baseCarbonIntensity |-> dc.energy.carbonIntensity,
   drift |-> driftOf(dc),
   annualTonsCO2 |-> Div(Mul(grams, Num(sessionsPerYear)), Num(1000000))]

\* calculateEmissions from `const hourModifier` on, given the electricity
\* result: reading electricity.withOverhead of null is a TypeError
emissionsFrom(dc, electricity, adjustedIntensity) ==
  IF electricity.kind = "null" THEN Throw("TypeError")
  ELSE emissionsOf(dc, adjustedIntensity,
                   Mul(electricity.withOverhead, adjustedIntensity))

calculateEmissions(cfg) ==
  IF Falsy(cfg.datacenter) THEN Null
  ELSE emissionsFrom(cfg.datacenter, calculateElectricity(cfg),
                     Mul(cfg.datacenter.energy.carbonIntensity,
                         Index(carbonIntensityByHour, cfg.hour)))

gpuMaterials == << "cobalt", "lithium", "rareEarth", "silicon" >>

\* materials: the entries of relevantMaterials in insertion order
getMaterials ==
  [kind |-> "ok",
   materials |-> [i \in 1..Len(gpuMaterials) |->
                    [key |-> gpuMaterials[i], material |-> MATERIALS[gpuMaterials[i]]]],
   ewasteDestinations |-> [i \in 1..Len(EWASTE_KEYS) |-> EWASTE[EWASTE_KEYS[i]]]]

\* NARRATIVES.standard(data): the values the template substitutes, in order
NarrativeStandard(data) ==
  IF IsUndefinedObj(data.emissionsDrift) THEN Throw("TypeError")
  ELSE [kind |-> "ok",
        distanceKm |-> data.distanceKm,
        datacenterLocation |-> data.datacenterLocation,
        fossilPercent |-> MathRound(data.fossilPercent),
        seawater |-> ~Positive(data.waterLiters),
        waterLiters |-> IF Positive(data.waterLiters)
                        THEN ToFixed(data.waterLiters, 1) ELSE Num(0),
        co2Grams |-> ToFixed(data.co2Grams, 0),
        direction |-> data.emissionsDrift.direction,
        toward |-> data.emissionsDrift.destinations[1].name]

\* gridMix[type] without the `|| 0.1`, read as 0 for a missing type
GridShareWithoutDefault(gridMix, type) ==
  IF type \in DOMAIN gridMix THEN gridMix[type] ELSE Num(0)

\* gridMix[type] || 0.1
GridShare(gridMix, type) ==
  IF type \in DOMAIN gridMix /\ Truthy(gridMix[type]) THEN gridMix[type] ELSE Dec(1, 0 - 1)

DataFlow(city, dc) ==
  << [type |-> "data", from |-> city.coords, to |-> dc.coords,
      label |-> << "Request" >>, intensity |-> Num(1)] >>

ElectricityFlows(dc, electricity) ==
  [i \in 1..Len(electricity.sources) |->
     LET source == electricity.sources[i]
     IN  [type |-> "electricity", from |-> source.coords, to |-> dc.coords,
          label |-> << source.name >>, sourceType |-> source.type,
          intensity |-> GridShare(dc.energy.gridMix, source.type)]]

\* the water flow pushed under `water.liters >= 0`
WaterFlowsWhenNotNegative(dc, water) ==
  IF Leq(Num(0), water.liters)
  THEN << [type |-> "water", from |-> water.sourceCoords, to |-> dc.coords,
           label |-> << water.source >>,
           intensity |-> MathMin(Div(water.liters, Num(10)), Num(1)),
           stressLevel |-> water.stressLevel] >>
  ELSE << >>

WaterFlows(dc, water) ==
  IF Positive(water.liters)
  THEN << [type |-> "water", from |-> water.sourceCoords, to |-> dc.coords,
           label |-> << water.source >>,
           intensity |-> MathMin(Div(water.liters, Num(10)), Num(1)),
           stressLevel |-> water.stressLevel] >>
  ELSE << >>

EmissionsFlows(dc, emissions) ==
  IF IsUndefinedObj(emissions.drift) THEN << >>
  ELSE [i \in 1..Len(emissions.drift.destinations) |->
          LET dest == emissions.drift.destinations[i]
          IN  [type |-> "emissions", from |-> dc.coords, to |-> dest.coords,
               label |-> << "CO2 drift to ", dest.name >>,
               intensity |-> MathMin(Div(emissions.grams, Num(500)), Num(1))]]

SupplyFlows(dc, materials) ==
  [i \in 1..Len(materials.materials) |->
     LET material == materials.materials[i].material
     IN  [type |-> "materials", subtype |-> "supply", from |-> material.sourceCoords,
          to |-> dc.coords, label |-> << material.name >>, intensity |-> Dec(5, 0 - 1)]]

\* arr.slice(0, n)
Slice(arr, n) == SubSeq(arr, 1, IF Len(arr) < n THEN Len(arr) ELSE n)

EwasteShown == 2

\* the e-waste flows without the slice(0, 2)
EwasteFlowsUnsliced(dc, materials) ==
  [i \in 1..Len(materials.ewasteDestinations) |->
     [type |-> "materials", subtype |-> "ewaste", from |-> dc.coords,
      to |-> materials.ewasteDestinations[i].coords,
      label |-> << "E-waste to ", materials.ewasteDestinations[i].name >>,
      intensity |-> Dec(3, 0 - 1)]]

EwasteFlows(dc, materials) ==
  LET shown == Slice(materials.ewasteDestinations, EwasteShown)
  IN  [i \in 1..Len(shown) |->
         [type |-> "materials", subtype |-> "ewaste", from |-> dc.coords,
          to |-> shown[i].coords, label |-> << "E-waste to ", shown[i].name >>,
          intensity |-> Dec(3, 0 - 1)]]

\* generateFlows pushing the emissions flows before the water flow
generateFlowsEmissionsFirst(cfg, electricity, water, emissions, materials) ==
  DataFlow(cfg.city, cfg.datacenter) \o ElectricityFlows(cfg.datacenter, electricity)
    \o EmissionsFlows(cfg.datacenter, emissions) \o WaterFlows(cfg.datacenter, water)
    \o SupplyFlows(cfg.datacenter, materials) \o EwasteFlows(cfg.datacenter, materials)

generateFlows(cfg, electricity, water, emissions, materials) ==
  LET dc == cfg.datacenter
      city == cfg.city
  IN  DataFlow(city, dc) \o ElectricityFlows(dc, electricity) \o WaterFlows(dc, water)
        \o EmissionsFlows(dc, emissions) \o SupplyFlows(dc, materials)
        \o EwasteFlows(dc, materials)

\* the narrativeData object of runSimulation
narrativeDataOf(cfg, distance, electricity, water, emissions, materials) ==
  [distanceKm |-> MathRound(distance),
   datacenterName |-> cfg.datacenter.name,
   datacenterLocation |-> cfg.datacenter.location,
   fossilPercent |-> electricity.fossilPercent,
   waterLiters |-> water.liters,
   waterSource |-> water.source,
   aquiferDepletion |-> water.aquiferDepletion,
   waterLitersPerSecond |-> water.litersPerSecond,
   co2Grams |-> emissions.grams,
   emissionsDrift |-> emissions.drift,
   annualTonsCO2 |-> emissions.annualTonsCO2,
   ewasteDestination |-> materials.ewasteDestinations[1].name]

\* the object runSimulation returns, unless NARRATIVES.standard threw
resultOf(cfg, distance, electricity, water, emissions, materials, narrativeData, narrative) ==
  IF narrative.kind = "throw" THEN narrative
  ELSE [kind |-> "ok",
        city |-> cfg.city,
        workload |-> cfg.workload,
        datacenter |-> cfg.datacenter,
        hour |-> cfg.hour,
        distance |-> distance,
        electricity |-> electricity,
        water |-> water,
        emissions |-> emissions,
        materials |-> materials,
        narrative |-> narrative,
        narrativeData |-> narrativeData,
        flows |-> generateFlows(cfg, electricity, water, emissions, materials)]

\* runSimulation from `const narrativeData` on
narrate(cfg, distance, electricity, water, emissions, materials, narrativeData) ==
  resultOf(cfg, distance, electricity, water, emissions, materials, narrativeData,
           NarrativeStandard(narrativeData))

\* runSimulation after the four calculations; reading a field of a null
\* result, or a thrown calculation, ends it with a TypeError
assemble(cfg, distance, electricity, water, emissions, materials) ==
  IF electricity.kind # "ok" \/ water.kind # "ok" \/ emissions.kind # "ok"
  THEN Throw("TypeError")
  ELSE narrate(cfg, distance, electricity, water, emissions, materials,
               narrativeDataOf(cfg, distance, electricity, water, emissions, materials))

\* runSimulation with a guard that forgets the workload
runSimulationWorkloadUnchecked(cfg) ==
  IF Falsy(cfg.city) \/ Falsy(cfg.datacenter)
  THEN Throw(ConfigError)
  ELSE assemble(cfg, calculateDistance(cfg.city.coords, cfg.datacenter.coords),
                calculateElectricity(cfg), calculateWater(cfg),
                calculateEmissions(cfg), getMaterials)

runSimulation(cfg) ==
  IF Falsy(cfg.city) \/ Falsy(cfg.workload) \/ Falsy(cfg.datacenter)
  THEN Throw(ConfigError)
  ELSE assemble(cfg, calculateDistance(cfg.city.coords, cfg.datacenter.coords),
                calculateElectricity(cfg), calculateWater(cfg),
                calculateEmissions(cfg), getMaterials)

\* the records a field of the engine can hold
Held(table) == { table[key] : key \in DOMAIN table } \cup {Null, UndefinedObj}

\* every configuration the engine can hold
Configurations ==
  [city : Held(CITIES), workload : Held(WORKLOADS), datacenter : Held(DATACENTERS),
   hour : (0 - HourSlack)..(23 + HourSlack)]

\* runSimulation tabulated over the configurations, so that it is evaluated
\* once per configuration (@@ makes the table explicit)
SimulationTable == [cfg \in Configurations |-> runSimulation(cfg)] @@ << >>

\* this.runSimulation() under configuration cfg
Simulate(cfg) == SimulationTable[cfg]

\* the difference taken relative to the first run: ((x1 - x2) / x1) * 100
DifferenceOverFirst(x1, x2) == Mul(Div(Sub(x1, x2), x1), Num(100))

\* ((x1 - x2) / x2) * 100
Difference(x1, x2) == Mul(Div(Sub(x1, x2), x2), Num(100))

\* what compareDatacenters returns from two completed runs
comparisonOf(results1, results2) ==
  [kind |-> "ok",
   dc1 |-> results1,
   dc2 |-> results2,
   comparison |->
     [waterDifference |-> Difference(results1.water.liters, results2.water.liters),
      emissionsDifference |->
        Difference(results1.emissions.grams, results2.emissions.grams),
      electricityDifference |->
        Difference(results1.electricity.withOverhead,
                   results2.electricity.withOverhead)]]

\* compareDatacenters without its `this.currentDatacenter = original`
comparedWithoutRestore(original, first, results1, second, results2) ==
  IF results1.kind = "throw" THEN [outcome |-> results1, datacenter |-> first]
  ELSE IF results2.kind = "throw" THEN [outcome |-> results2, datacenter |-> second]
  ELSE [outcome |-> comparisonOf(results1, results2), datacenter |-> second]

\* The outcome of compareDatacenters and the datacenter it leaves configured:
\* a run that throws leaves the datacenter assigned for that run.
compared(original, first, results1, second, results2) ==
  IF results1.kind = "throw" THEN [outcome |-> results1, datacenter |-> first]
  ELSE IF results2.kind = "throw" THEN [outcome |-> results2, datacenter |-> second]
  ELSE [outcome |-> comparisonOf(results1, results2), datacenter |-> original]

\* the two runs of compareDatacenters under the datacenters first and second
comparedRuns(cfg, first, second) ==
  compared(cfg.datacenter,
           first, Simulate([cfg EXCEPT !.datacenter = first]),
           second, Simulate([cfg EXCEPT !.datacenter = second]))

compareDatacenters(cfg, dc1Id, dc2Id) ==
  comparedRuns(cfg, Lookup(DATACENTERS, dc1Id), Lookup(DATACENTERS, dc2Id))

------------------------------------------------------------------------------
(* The globe: src/src/visualization/globe.js.  Of a GlobeVisualization the  *)
(* model keeps layerVisibility, flowLines, markers and flowParticles; of a   *)
(* line, a particle and a marker it keeps userData and the `visible` flag.   *)
(* A curve is the pair of its end points.  flowParticles is not assigned by  *)
(* the constructor: it is undefined until the first visualizeFlows.          *)

Layers == << "electricity", "water", "emissions", "materials" >>

LayerNames == { Layers[i] : i \in 1..Len(Layers) }

\* an array held in a field that can also be undefined
Array(items) == [kind |-> "array", items |-> items]

\* the fields after the constructor
NewGlobe ==
  [layerVisibility |-> [layer \in LayerNames |-> TRUE],
   flowLines |-> << >>,
   markers |-> << >>,
   flowParticles |-> UndefinedObj]

createGhostLine(from, to, type, intensity) ==
  [type |-> type, intensity |-> intensity, curve |-> << from, to >>, visible |-> TRUE]

ParticlesPerLine == 20

\* the particles of one line; offset is i / count, kept as i (the random
\* speed only moves a particle along its curve)
createFlowParticles(curve, type) ==
  [k \in 1..ParticlesPerLine |->
     [curve |-> curve, offset |-> k - 1, type |-> type, visible |-> TRUE]]

createMarker(coords, label, type) ==
  [label |-> label, type |-> type, coords |-> coords, visible |-> TRUE]

\* `!this.layerVisibility[flow.type] && flow.type !== 'data'`
Skipped(layerVisibility, flow) ==
  /\ ~(flow.type \in DOMAIN layerVisibility /\ layerVisibility[flow.type])
  /\ flow.type # "data"

clearFlows(g) ==
  [g EXCEPT !.flowLines = << >>,
            !.flowParticles = IF @.kind = "array" THEN Array(<< >>) ELSE @,
            !.markers = << >>]

\* the lines, particles and markers the loop of visualizeFlows creates for
\* the flows it does not skip
linesOf(drawn) ==
  [i \in 1..Len(drawn) |->
     createGhostLine(drawn[i].from, drawn[i].to, drawn[i].type, drawn[i].intensity)]

particlesOf(lines) ==
  [k \in 1..(ParticlesPerLine * Len(lines)) |->
     createFlowParticles(lines[((k - 1) \div ParticlesPerLine) + 1].curve,
                         lines[((k - 1) \div ParticlesPerLine) + 1].type)
       [((k - 1) % ParticlesPerLine) + 1]]

markersOf(drawn) ==
  [k \in 1..(2 * Len(drawn)) |->
     IF k % 2 = 1
     THEN createMarker(drawn[(k + 1) \div 2].from, drawn[(k + 1) \div 2].label,
                       drawn[(k + 1) \div 2].type)
     ELSE createMarker(drawn[k \div 2].to, drawn[k \div 2].label, drawn[k \div 2].type)]

\* visualizeFlows after this.clearFlows(), on the cleared globe
drawOn(cleared, drawn) ==
  [cleared EXCEPT !.flowLines = @ \o linesOf(drawn),
                  !.markers = @ \o markersOf(drawn),
                  !.flowParticles = Array(particlesOf(linesOf(drawn)))]

\* visualizeFlows without its this.clearFlows()
visualizeFlowsWithoutClear(g, flows) ==
  drawOn(g, SelectSeq(flows, LAMBDA flow : ~Skipped(g.layerVisibility, flow)))

visualizeFlows(g, flows) ==
  drawOn(clearFlows(g), SelectSeq(flows, LAMBDA flow : ~Skipped(g.layerVisibility, flow)))

\* x with its `visible` flag set to `visible` when x.type is the layer
shown(x, layer, visible) == IF x.type = layer THEN [x EXCEPT !.visible = visible] ELSE x

showAll(arr, layer, visible) == [i \in 1..Len(arr) |-> shown(arr[i], layer, visible)]

setLayerVisibility(g, layer, visible) ==
  [g EXCEPT !.layerVisibility = (layer :> visible) @@ @,
            !.flowLines = showAll(@, layer, visible),
            !.flowParticles =
              IF @.kind = "array" THEN Array(showAll(@.items, layer, visible)) ELSE @,
            !.markers = showAll(@, layer, visible)]

setAllLayersVisibility(g, visible) ==
  setLayerVisibility(
    setLayerVisibility(
      setLayerVisibility(setLayerVisibility(g, Layers[1], visible), Layers[2], visible),
      Layers[3], visible),
    Layers[4], visible)

------------------------------------------------------------------------------
(* The engine as a state machine.  The four fields of the SimulationEngine  *)
(* singleton are the program state; `call` and `result` record the method   *)
(* invoked last and what it returned or threw, until the caller takes it.   *)
(* `globe`, `ui` and `demo` hold the fields of the GlobeVisualization, of    *)
(* the UIController and of the DemoController built on top of the engine.    *)

VARIABLES currentCity, currentWorkload, currentDatacenter, currentHour, call, result, globe, ui, demo

config == << currentCity, currentWorkload, currentDatacenter, currentHour >>

\* the objects of the presentation layer, which no method of the engine touches
presentation == << globe, ui, demo >>

vars ==
  << currentCity, currentWorkload, currentDatacenter, currentHour, call, result,
     globe, ui, demo >>

Cfg ==
  [city |-> currentCity, workload |-> currentWorkload,
   datacenter |-> currentDatacenter, hour |-> currentHour]

\* an identifier that is a key of no reference table
UnknownId == "atlantis"

CityInputs == DOMAIN CITIES \cup {UnknownId, ""}

WorkloadInputs == DOMAIN WORKLOADS \cup {UnknownId, ""}

DatacenterInputs == DOMAIN DATACENTERS \cup {UnknownId, ""}

HourInputs == (0 - HourSlack)..(23 + HourSlack)

\* the object literals {key: v} for v in vals, and {} (key not supplied)
Opt(key, vals) == { << >> } \cup { key :> v : v \in vals }

\* the arguments of configure(): an object with a subset of the four keys
ConfigureArgs ==
  { a \in { c @@ w @@ d @@ h : c \in Opt("city", CityInputs),
                               w \in Opt("workload", WorkloadInputs),
                               d \in Opt("datacenter", DatacenterInputs),
                               h \in Opt("hour", HourInputs) } :
      Cardinality(DOMAIN a) <= MaxSupplied }

\* a destructured parameter is undefined when the key is absent
Supplied(args, key) == key \in DOMAIN args

\* `if (id) this.field = TABLE[id]`: an absent or empty id leaves the field
assigned(args, key, table, field) ==
  IF Supplied(args, key) /\ args[key] # "" THEN Lookup(table, args[key]) ELSE field

\* configure testing the hour for truthiness, as it tests the identifiers
configureTruthyHour(cfg, args) ==
  [city       |-> assigned(args, "city", CITIES, cfg.city),
   workload   |-> assigned(args, "workload", WORKLOADS, cfg.workload),
   datacenter |-> assigned(args, "datacenter", DATACENTERS, cfg.datacenter),
   hour       |-> IF Supplied(args, "hour") /\ args.hour # 0 THEN args.hour
                  ELSE cfg.hour]

\* configure({ city, workload, datacenter, hour }): the fields afterwards
configure(cfg, args) ==
  [city       |-> assigned(args, "city", CITIES, cfg.city),
   workload   |-> assigned(args, "workload", WORKLOADS, cfg.workload),
   datacenter |-> assigned(args, "datacenter", DATACENTERS, cfg.datacenter),
   hour       |-> IF Supplied(args, "hour") THEN args.hour ELSE cfg.hour]

\* the classes, identifiers and fields of the UIController after its
\* constructor and init(); `active` holds the layer buttons whose class list
\* contains 'active', null identifiers are the empty string
NullId == ""

NewUi(active) ==
  [selectedCity |-> NullId,
   selectedWorkload |-> NullId,
   selectedDatacenter |-> "arizona",
   currentHour |-> 14,
   simulationResults |-> Null,
   activeLayers |-> [layer \in LayerNames |-> TRUE],
   active |-> active]

\* the DemoController after its constructor; `scenario` is the index that
\* the pending timers of playScenario captured, `pending` the timer due next
NewDemo == [currentScenario |-> 0, scenario |-> 0, pending |-> "none"]

Idle == call.op = "none"

NoCall == [op |-> "none", args |-> << >>]

NoResult == [kind |-> "none"]

Init ==
  /\ currentCity = Null
  /\ currentWorkload = Null
  /\ currentDatacenter = Null
  /\ currentHour = 14
  /\ call = NoCall
  /\ result = NoResult
  /\ globe = NewGlobe
  /\ ui = NewUi({"all"})
  /\ demo = NewDemo

Configure(args) ==
  /\ Idle
  /\ LET new == configure(Cfg, args)
     IN  /\ currentCity' = new.city
         /\ currentWorkload' = new.workload
         /\ currentDatacenter' = new.datacenter
         /\ currentHour' = new.hour
  /\ call' = [op |-> "configure", args |-> args]
  /\ result' = [kind |-> "undefined"]
  /\ UNCHANGED presentation

\* calculateElectricity() that also moves the engine to the next hour
CalculateElectricityAdvancingHour ==
  /\ Idle
  /\ call' = [op |-> "calculateElectricity", args |-> << >>]
  /\ result' = calculateElectricity(Cfg)
  /\ currentHour' = (currentHour + 1) % 24
  /\ UNCHANGED << currentCity, currentWorkload, currentDatacenter >>
  /\ UNCHANGED presentation

CalculateElectricity ==
  /\ Idle
  /\ call' = [op |-> "calculateElectricity", args |-> << >>]
  /\ result' = calculateElectricity(Cfg)
  /\ UNCHANGED config
  /\ UNCHANGED presentation

CalculateWater ==
  /\ Idle
  /\ call' = [op |-> "calculateWater", args |-> << >>]
  /\ result' = calculateWater(Cfg)
  /\ UNCHANGED config
  /\ UNCHANGED presentation

CalculateEmissions ==
  /\ Idle
  /\ call' = [op |-> "calculateEmissions", args |-> << >>]
  /\ result' = calculateEmissions(Cfg)
  /\ UNCHANGED config
  /\ UNCHANGED presentation

GetMaterials ==
  /\ Idle
  /\ call' = [op |-> "getMaterials", args |-> << >>]
  /\ result' = getMaterials
  /\ UNCHANGED config
  /\ UNCHANGED presentation

RunSimulation ==
  /\ Idle
  /\ call' = [op |-> "runSimulation", args |-> << >>]
  /\ result' = Simulate(Cfg)
  /\ UNCHANGED config
  /\ UNCHANGED presentation

CompareDatacenters(dc1Id, dc2Id) ==
  /\ Idle
  /\ LET r == compareDatacenters(Cfg, dc1Id, dc2Id)
     IN  /\ result' = r.outcome
         /\ currentDatacenter' = r.datacenter
  /\ call' = [op |-> "compareDatacenters", args |-> << dc1Id, dc2Id >>]
  /\ UNCHANGED << currentCity, currentWorkload, currentHour >>
  /\ UNCHANGED presentation

\* the caller takes the returned value (or catches the error)
Return ==
  /\ ~Idle
  /\ call' = NoCall
  /\ result' = NoResult
  /\ UNCHANGED config
  /\ UNCHANGED presentation

Next ==
  \/ \E args \in ConfigureArgs : Configure(args)
  \/ CalculateElectricity
  \/ CalculateWater
  \/ CalculateEmissions
  \/ GetMaterials
  \/ RunSimulation
  \/ \E dc1Id \in DOMAIN DATACENTERS \cup {UnknownId} :
       \E dc2Id \in DOMAIN DATACENTERS \cup {UnknownId} : CompareDatacenters(dc1Id, dc2Id)
  \/ Return

\* the coordinates handed to calculateDistance(): those of the reference
\* cities and datacenters, the origin, the poles and the antimeridian
Coordinates ==
  { CITIES[id].coords : id \in DOMAIN CITIES }
    \cup { DATACENTERS[id].coords : id \in DOMAIN DATACENTERS }
    \cup { Coord(0, 0), Coord(900000, 0), Coord(0 - 900000, 0),
           Coord(0, 1800000), Coord(0, 0 - 1800000) }

CalculateDistance(coord1, coord2) ==
  /\ Idle
  /\ call' = [op |-> "calculateDistance", args |-> << coord1, coord2 >>]
  /\ result' = calculateDistance(coord1, coord2)
  /\ UNCHANGED config
  /\ UNCHANGED presentation

\* calls of calculateDistance() alone, on a freshly constructed engine
DistanceNext ==
  \/ \E coord1 \in Coordinates : \E coord2 \in Coordinates :
       CalculateDistance(coord1, coord2)
  \/ Return

DistanceSpec == Init /\ [][DistanceNext]_vars

Spec == Init /\ [][Next]_vars

------------------------------------------------------------------------------
(* The UI controller (src/unnamed/part_000) and the demo (src/src/main.js). *)
(* A step is one event handler or one timer callback, run to completion;     *)
(* `call` records the event and `result` what simulationEngine.runSimulation *)
(* returned or threw in that handler, NoResult when it was not called.       *)

\* the object UIController.runSimulation hands to simulationEngine.configure
Selection(u) ==
  [city |-> u.selectedCity, workload |-> u.selectedWorkload,
   datacenter |-> u.selectedDatacenter, hour |-> u.currentHour]

\* the engine fields after configure
Configured(new) ==
  /\ currentCity' = new.city
  /\ currentWorkload' = new.workload
  /\ currentDatacenter' = new.datacenter
  /\ currentHour' = new.hour

\* the try block of UIController.runSimulation: a thrown error is caught and
\* leaves the results and the globe as they are
Ran(u, results) ==
  /\ result' = results
  /\ ui' = IF results.kind = "ok" THEN [u EXCEPT !.simulationResults = results] ELSE u
  /\ globe' = IF results.kind = "ok" THEN visualizeFlows(globe, results.flows) ELSE globe

\* UIController.runSimulation() on the controller fields u
RunFrom(u) ==
  /\ Configured(configure(Cfg, Selection(u)))
  /\ Ran(u, Simulate(configure(Cfg, Selection(u))))

\* the handler does not reach the engine
NoEngineCall == result' = NoResult /\ UNCHANGED config

\* selectDatacenter(city.defaultDatacenter) under `city && city.defaultDatacenter`
defaultSelected(u, city) ==
  IF ~Falsy(city) /\ city.defaultDatacenter # NullId
  THEN [u EXCEPT !.selectedDatacenter = city.defaultDatacenter]
  ELSE u

\* the click handler of a city button
CityClicked(id) ==
  /\ ui' = defaultSelected([ui EXCEPT !.selectedCity = id], Lookup(CITIES, id))
  /\ NoEngineCall
  /\ UNCHANGED globe

\* the click handler of a workload button
WorkloadClicked(id) ==
  /\ ui' = [ui EXCEPT !.selectedWorkload = id]
  /\ NoEngineCall
  /\ UNCHANGED globe

\* the input handler of the time slider re-running whether or not a
\* simulation has run before
SliderInputAlwaysRunning(hour) == RunFrom([ui EXCEPT !.currentHour = hour])

\* the input handler of the time slider
SliderInput(hour) ==
  IF ~Falsy(ui.simulationResults)
  THEN RunFrom([ui EXCEPT !.currentHour = hour])
  ELSE /\ ui' = [ui EXCEPT !.currentHour = hour]
       /\ NoEngineCall
       /\ UNCHANGED globe

\* the click handler of the run button
RunClicked ==
  IF ui.selectedCity = NullId \/ ui.selectedWorkload = NullId
  THEN NoEngineCall /\ UNCHANGED << ui, globe >>
  ELSE RunFrom(ui)

ClickCity(id) ==
  /\ call' = [op |-> "clickCity", args |-> << id >>]
  /\ CityClicked(id)
  /\ UNCHANGED demo

ClickWorkload(id) ==
  /\ call' = [op |-> "clickWorkload", args |-> << id >>]
  /\ WorkloadClicked(id)
  /\ UNCHANGED demo

\* the change handler of the datacenter option the user checks
ChangeDatacenter(id) ==
  /\ call' = [op |-> "changeDatacenter", args |-> << id >>]
  /\ ui' = [ui EXCEPT !.selectedDatacenter = id]
  /\ NoEngineCall
  /\ UNCHANGED << globe, demo >>

InputTimeSlider(hour) ==
  /\ call' = [op |-> "inputTimeSlider", args |-> << hour >>]
  /\ SliderInput(hour)
  /\ UNCHANGED demo

ClickRun ==
  /\ call' = [op |-> "clickRun", args |-> << >>]
  /\ RunClicked
  /\ UNCHANGED demo

\* the classes after a layer click that does not take 'active' off the 'all'
\* button
classesAfterKeepingAll(toggled, allEnabled) == IF allEnabled THEN {"all"} ELSE toggled

\* the classes of the layer buttons after the click on a layer button
classesAfter(toggled, allEnabled) == IF allEnabled THEN {"all"} ELSE toggled \ {"all"}

\* the controller after the click on the button of `layer`
layerToggled(u, layer, isNowActive) ==
  [u EXCEPT !.activeLayers[layer] = isNowActive,
            !.active =
              classesAfter(IF isNowActive THEN @ \cup {layer} ELSE @ \ {layer},
                           isNowActive
                             /\ \A other \in LayerNames \ {layer} : u.activeLayers[other])]

ClickLayer(layer) ==
  /\ call' = [op |-> "clickLayer", args |-> << layer >>]
  /\ ui' = layerToggled(ui, layer, ~ui.activeLayers[layer])
  /\ globe' = setLayerVisibility(globe, layer, ~ui.activeLayers[layer])
  /\ NoEngineCall
  /\ UNCHANGED demo

\* the click handler of the 'all' button
ClickAll ==
  /\ call' = [op |-> "clickLayer", args |-> << "all" >>]
  /\ ui' = [ui EXCEPT !.activeLayers = [layer \in LayerNames |-> TRUE],
                      !.active = {"all"}]
  /\ globe' = setAllLayersVisibility(globe, TRUE)
  /\ NoEngineCall
  /\ UNCHANGED demo

demoScenarios ==
  << [city |-> "barcelona", workload |-> "chatbot", datacenter |-> "ireland", hour |-> 10],
     [city |-> "phoenix", workload |-> "image", datacenter |-> "arizona", hour |-> 15],
     [city |-> "lagos", workload |-> "biometric", datacenter |-> "singapore", hour |-> 8],
     [city |-> "dublin", workload |-> "traffic", datacenter |-> "finland", hour |-> 18] >>

\* this.demoScenarios[index % this.demoScenarios.length]
ScenarioAt(index) == demoScenarios[(index % Len(demoScenarios)) + 1]

\* the scenarios the demo plays before the model stops following it
MaxPlayed == 5

\* the state of the DemoController when the timer `pending` is due next
Playing(currentScenario, scenario, pending) ==
  [currentScenario |-> currentScenario, scenario |-> scenario, pending |-> pending]

\* playScenario(this.currentScenario), called by runDemo() and then by the
\* timer of 15000 ms: the city button is clicked at once
PlayScenario ==
  /\ demo.pending \in {"none", "playScenario"}
  /\ demo.currentScenario < MaxPlayed
  /\ call' = [op |-> "playScenario", args |-> << demo.currentScenario >>]
  /\ CityClicked(ScenarioAt(demo.currentScenario).city)
  /\ demo' = Playing(demo.currentScenario + 1, demo.currentScenario, "workload")

\* the timer of 500 ms: the workload button is clicked
WorkloadTimer ==
  /\ demo.pending = "workload"
  /\ call' = [op |-> "workloadTimer", args |-> << demo.scenario >>]
  /\ WorkloadClicked(ScenarioAt(demo.scenario).workload)
  /\ demo' = [demo EXCEPT !.pending = "slider"]

\* the timer of 1000 ms: `dcOption.checked = true` checks the option without
\* a change event, so that no handler of the controller runs for it; then
\* the slider is set and its input event dispatched
SliderTimer ==
  /\ demo.pending = "slider"
  /\ call' = [op |-> "sliderTimer", args |-> << demo.scenario >>]
  /\ SliderInput(ScenarioAt(demo.scenario).hour)
  /\ demo' = [demo EXCEPT !.pending = "run"]

\* the timer of 1500 ms: the run button is clicked
RunTimer ==
  /\ demo.pending = "run"
  /\ call' = [op |-> "runTimer", args |-> << demo.scenario >>]
  /\ RunClicked
  /\ demo' = [demo EXCEPT !.pending = "playScenario"]

\* the demo has not been started
DemoOff == demo.pending = "none"

\* the demo, started on a page on which a city, a workload and the run
\* button may have been clicked before
DemoNext ==
  \/ \E id \in DOMAIN CITIES : DemoOff /\ ClickCity(id)
  \/ \E id \in DOMAIN WORKLOADS : DemoOff /\ ClickWorkload(id)
  \/ DemoOff /\ ClickRun
  \/ PlayScenario
  \/ WorkloadTimer
  \/ SliderTimer
  \/ RunTimer

DemoSpec == Init /\ [][DemoNext]_vars

\* the hours the time slider is moved to
SliderHours == {0, 23}

\* the events of the selection panel, the slider and the run button
UiNext ==
  \/ \E id \in DOMAIN CITIES : ClickCity(id)
  \/ \E id \in DOMAIN WORKLOADS : ClickWorkload(id)
  \/ \E id \in DOMAIN DATACENTERS : ChangeDatacenter(id)
  \/ \E hour \in SliderHours : InputTimeSlider(hour)
  \/ ClickRun

UiSpec == Init /\ [][UiNext]_vars

\* the 'active' classes the page can give the layer buttons before any click
InitialClasses == { {}, {"all"}, LayerNames }

\* the buttons and the hour used to run simulations between layer clicks
LayerCities == {"dublin"}

LayerWorkloads == {"chatbot"}

LayerHours == {20}

LayerInit ==
  /\ currentCity = Null
  /\ currentWorkload = Null
  /\ currentDatacenter = Null
  /\ currentHour = 14
  /\ call = NoCall
  /\ result = NoResult
  /\ globe = NewGlobe
  /\ ui \in { NewUi(active) : active \in InitialClasses }
  /\ demo = NewDemo

\* the events of the layer buttons, with simulations run between them
LayerNext ==
  \/ \E layer \in LayerNames : ClickLayer(layer)
  \/ ClickAll
  \/ \E id \in LayerCities : ClickCity(id)
  \/ \E id \in LayerWorkloads : ClickWorkload(id)
  \/ \E hour \in LayerHours : InputTimeSlider(hour)
  \/ ClickRun

LayerSpec == LayerInit /\ [][LayerNext]_vars

------------------------------------------------------------------------------
(* Properties of the engine *)

\* the step is a call of configure() whose argument supplies `key`
ConfigureWith(key) == call'.op = "configure" /\ Supplied(call'.args, key)

\* the step is a call of configure() whose argument does not supply `key`
ConfigureWithout(key) == call'.op = "configure" /\ ~Supplied(call'.args, key)

\* C1: configure() with a city, workload or datacenter identifier that is a
\* key of no reference table leaves the record configured for that field in
\* place, and raises no error.
UnknownIdIsNoOp ==
  [][/\ call'.op = "configure" => result'.kind # "throw"
     /\ (ConfigureWith("city") /\ call'.args.city = UnknownId /\ ~Falsy(currentCity))
          => currentCity' = currentCity
     /\ (ConfigureWith("workload") /\ call'.args.workload = UnknownId
           /\ ~Falsy(currentWorkload))
          => currentWorkload' = currentWorkload
     /\ (ConfigureWith("datacenter") /\ call'.args.datacenter = UnknownId
           /\ ~Falsy(currentDatacenter))
          => currentDatacenter' = currentDatacenter]_vars

\* C2: a call of compareDatacenters that returns normally leaves the
\* configured datacenter as it was before the call, also when none was
\* configured.
CompareRestoresDatacenter ==
  [][(call'.op = "compareDatacenters" /\ result'.kind = "ok")
       => currentDatacenter' = currentDatacenter]_vars

\* compareDatacenters('arizona', 'finland') has returned normally on an engine
\* configured with the ireland datacenter
ComparedFromIreland ==
  /\ call.op = "compareDatacenters"
  /\ call.args = << "arizona", "finland" >>
  /\ result.kind = "ok"
  /\ result.dc1.datacenter = DATACENTERS.arizona
  /\ result.dc2.datacenter = DATACENTERS.finland
  /\ currentDatacenter = DATACENTERS.ireland

\* C3: a call of compareDatacenters in which a simulation run fails with the
\* configuration error also leaves the configured datacenter as it was before
\* the call.
CompareRestoresAfterError ==
  [][(call'.op = "compareDatacenters" /\ result'.kind = "throw"
        /\ result'.error = ConfigError)
       => currentDatacenter' = currentDatacenter]_vars

\* each of the three records is configured
FullyConfigured ==
  ~Falsy(currentCity) /\ ~Falsy(currentWorkload) /\ ~Falsy(currentDatacenter)

\* a number that is neither null nor undefined
NonNullNumber(x) == x.k \in {"fin", "inf", "nan"}

\* C4: runSimulation() raises the configuration error exactly when city,
\* workload or datacenter is unset; with all three configured and an hour in
\* 0..23 it returns distance, electricity, water, emissions and materials, all
\* non-null, with a narrative and flows.
RunSimulationOutcome ==
  call.op = "runSimulation" =>
    /\ (result.kind = "throw" /\ result.error = ConfigError) <=> ~FullyConfigured
    /\ (FullyConfigured /\ currentHour \in 0..23) =>
         /\ result.kind = "ok"
         /\ NonNullNumber(result.distance) /\ IsFin(result.distance)
         /\ result.electricity.kind = "ok"
         /\ result.water.kind = "ok"
         /\ result.emissions.kind = "ok"
         /\ result.materials.kind = "ok"
         /\ result.narrative.kind = "ok"
         /\ Len(result.flows) > 0

\* runSimulation() has succeeded on a fully configured engine at hour 23
RanAtLastHour ==
  /\ call.op = "runSimulation"
  /\ result.kind = "ok"
  /\ currentHour = 23
  /\ result.hour = 23
  /\ IsFin(result.electricity.withOverhead)

\* C5: the configured hour is always an integer in [0,23], whatever hours
\* configure() was given.
HourInRange == currentHour \in 0..23

\* C6: calculateEmissions() never throws on an incompletely configured
\* engine: with the datacenter or the workload unset it returns null.
EmissionsNullWhenUnset ==
  (call.op = "calculateEmissions" /\ (Falsy(currentDatacenter) \/ Falsy(currentWorkload)))
    => result = Null

\* C7: calculateElectricity() and calculateWater() never throw, and return
\* null exactly when the workload or the datacenter is unset, whatever the
\* city.
NullIffWorkloadOrDatacenterUnset ==
  call.op \in {"calculateElectricity", "calculateWater"} =>
    /\ result.kind \in {"ok", "null"}
    /\ result = Null <=> (Falsy(currentWorkload) \/ Falsy(currentDatacenter))

\* calculateWater() has returned a result on an engine with no city
WaterWithoutCity ==
  /\ call.op = "calculateWater"
  /\ currentCity = Null
  /\ result.kind = "ok"
  /\ IsFin(result.liters)

\* the deltas compareDatacenters has returned
Deltas ==
  { result.comparison.waterDifference, result.comparison.emissionsDifference,
    result.comparison.electricityDifference }

\* C8: every delta compareDatacenters returns is a defined number, never the
\* NaN or Infinity of a division by a zero denominator.
DeltasDefined ==
  (call.op = "compareDatacenters" /\ result.kind = "ok") =>
    \A delta \in Deltas : IsFin(delta)

\* C9: configure() changes only the fields its argument supplies: an absent
\* field keeps its value, a supplied key of the table configures the record of
\* that key, and a supplied hour, 0 included, is stored.
ConfigureChangesSuppliedOnly ==
  [][/\ ConfigureWithout("city") => currentCity' = currentCity
     /\ ConfigureWithout("workload") => currentWorkload' = currentWorkload
     /\ ConfigureWithout("datacenter") => currentDatacenter' = currentDatacenter
     /\ ConfigureWithout("hour") => currentHour' = currentHour
     /\ (ConfigureWith("city") /\ call'.args.city \in DOMAIN CITIES)
          => currentCity' = CITIES[call'.args.city]
     /\ (ConfigureWith("workload") /\ call'.args.workload \in DOMAIN WORKLOADS)
          => currentWorkload' = WORKLOADS[call'.args.workload]
     /\ (ConfigureWith("datacenter") /\ call'.args.datacenter \in DOMAIN DATACENTERS)
          => currentDatacenter' = DATACENTERS[call'.args.datacenter]
     /\ ConfigureWith("hour") => currentHour' = call'.args.hour]_vars

\* configure({hour: 0}) has been called on an engine with a city, a workload
\* and a datacenter configured
ConfiguredHourZero ==
  /\ call.op = "configure"
  /\ DOMAIN call.args = {"hour"}
  /\ call.args.hour = 0
  /\ currentHour = 0
  /\ FullyConfigured

\* the flows of the given positions
Segment(flows, first, count) == SubSeq(flows, first, first + count - 1)

\* every flow of the segment has this type and subtype ("" for none)
AllOfType(segment, type, subtype) ==
  \A i \in 1..Len(segment) :
    /\ segment[i].type = type
    /\ IF subtype = "" THEN "subtype" \notin DOMAIN segment[i]
       ELSE segment[i].subtype = subtype

\* the end points of the segment's flows on the given side ("from" or "to")
Ends(segment, side) == [i \in 1..Len(segment) |-> segment[i][side]]

CoordsOf(sites) == [i \in 1..Len(sites) |-> sites[i].coords]

\* C10: the flows of runSimulation() are one data flow from the city to the
\* datacenter, one electricity flow per power source of the datacenter in
\* table order, one water flow exactly when the water liters are positive,
\* one emissions flow per drift destination of the datacenter in table order,
\* the supply flows of cobalt, lithium, rareEarth and silicon in that order,
\* and the e-waste flows to the first two e-waste destinations, in that order
\* and nothing else.
FlowsInSixSegments ==
  (call.op = "runSimulation" /\ result.kind = "ok") =>
    LET flows == result.flows
        dc == currentDatacenter
        sources == dc.energy.sources
        wet == IF Positive(result.water.liters) THEN 1 ELSE 0
        destinations == EMISSIONS_DRIFT[dc.id].destinations
        electricity == Segment(flows, 2, Len(sources))
        water == Segment(flows, 2 + Len(sources), wet)
        emissions == Segment(flows, 2 + Len(sources) + wet, Len(destinations))
        supply == Segment(flows, 2 + Len(sources) + wet + Len(destinations), 4)
        ewaste == Segment(flows, 6 + Len(sources) + wet + Len(destinations), 2)
    IN  /\ Len(flows) = 1 + Len(sources) + wet + Len(destinations) + 4 + 2
        /\ flows[1].type = "data"
        /\ flows[1].from = currentCity.coords /\ flows[1].to = dc.coords
        /\ AllOfType(electricity, "electricity", "")
        /\ Ends(electricity, "from") = CoordsOf(sources)
        /\ AllOfType(water, "water", "")
        /\ AllOfType(emissions, "emissions", "")
        /\ Ends(emissions, "to") = CoordsOf(destinations)
        /\ AllOfType(supply, "materials", "supply")
        /\ Ends(supply, "from") =
             << MATERIALS.cobalt.sourceCoords, MATERIALS.lithium.sourceCoords,
                MATERIALS.rareEarth.sourceCoords, MATERIALS.silicon.sourceCoords >>
        /\ AllOfType(ewaste, "materials", "ewaste")
        /\ Ends(ewaste, "to") = << EWASTE.ghana.coords, EWASTE.india.coords >>

\* runSimulation() has returned the thirteen flows of the arizona datacenter,
\* the water flow after its three electricity flows
FlowsWithWater ==
  /\ call.op = "runSimulation"
  /\ result.kind = "ok"
  /\ Len(result.flows) = 13
  /\ result.flows[5].type = "water"
  /\ currentDatacenter = DATACENTERS.arizona

\* the flow list runSimulation() has returned
ReturnedFlows == result.flows

RanSimulation == call.op = "runSimulation" /\ result.kind = "ok"

\* C11: the flow list has 1 + (power sources of the datacenter) + (1 if the
\* water liters are positive, else 0) + (drift destinations) + 4 + 2 flows,
\* which is 11 or 12 for a datacenter with 2 power sources and 2 drift
\* destinations.
FlowCount ==
  RanSimulation =>
    LET sources == Len(currentDatacenter.energy.sources)
        wet == IF Positive(result.water.liters) THEN 1 ELSE 0
        destinations == Len(EMISSIONS_DRIFT[currentDatacenter.id].destinations)
    IN  /\ Len(ReturnedFlows) = 1 + sources + wet + destinations + 4 + 2
        /\ (sources = 2 /\ destinations = 2) => Len(ReturnedFlows) \in {11, 12}
        /\ (sources = 2 /\ destinations = 2 /\ wet = 1) => Len(ReturnedFlows) = 12

\* runSimulation() has returned 12 flows for the ireland datacenter at hour 0
TwelveFlowsForIreland ==
  /\ RanSimulation
  /\ currentDatacenter = Ireland
  /\ currentHour = 0
  /\ Len(ReturnedFlows) = 12

\* 0 <= x <= 1
InUnitInterval(x) == Leq(Num(0), x) /\ Leq(x, Num(1))

\* C12: every flow runSimulation() returns has an intensity within [0,1],
\* and the data flow has intensity 1, under every hour configure() accepts.
IntensitiesInUnitInterval ==
  RanSimulation =>
    /\ ReturnedFlows[1].type = "data" /\ ReturnedFlows[1].intensity = Num(1)
    /\ \A i \in 1..Len(ReturnedFlows) : InUnitInterval(ReturnedFlows[i].intensity)

\* the intensity a flow of runSimulation()'s result is to have
ExpectedIntensity(flow) ==
  CASE flow.type = "data" -> Num(1)
    [] flow.type = "electricity" ->
         IF flow.sourceType \in DOMAIN currentDatacenter.energy.gridMix
         THEN currentDatacenter.energy.gridMix[flow.sourceType]
         ELSE Dec(1, 0 - 1)
    [] flow.type = "water" -> MathMin(Div(result.water.liters, Num(10)), Num(1))
    [] flow.type = "emissions" -> MathMin(Div(result.emissions.grams, Num(500)), Num(1))
    [] flow.type = "materials" /\ flow.subtype = "supply" -> Dec(5, 0 - 1)
    [] flow.type = "materials" /\ flow.subtype = "ewaste" -> Dec(3, 0 - 1)

\* C13: the intensities are 1 for the data flow, the grid-mix share of the
\* source's type or 0.1 when the grid mix has no such key for an electricity
\* flow, min(liters/10, 1) for the water flow, min(grams/500, 1) for an
\* emissions flow, 0.5 for a supply flow and 0.3 for an e-waste flow.
ExactIntensities ==
  RanSimulation =>
    \A i \in 1..Len(ReturnedFlows) :
      ReturnedFlows[i].intensity = ExpectedIntensity(ReturnedFlows[i])

\* runSimulation() has returned arizona's flows: the nuclear source at its
\* grid share 0.28, the 'gas' source, no key of the grid mix, at 0.1
ArizonaGasAtDefault ==
  /\ RanSimulation
  /\ currentDatacenter = Arizona
  /\ ReturnedFlows[2].sourceType = "nuclear" /\ ReturnedFlows[2].intensity = Dec(28, 0 - 2)
  /\ ReturnedFlows[3].sourceType = "gas" /\ ReturnedFlows[3].intensity = Dec(1, 0 - 1)
  /\ ReturnedFlows[5].type = "water" /\ IsFin(ReturnedFlows[5].intensity)

\* a datacenter is configured and its WUE is 0
ZeroWue == ~Falsy(currentDatacenter) /\ currentDatacenter.water.wue = Num(0)

\* C14: with a datacenter of WUE 0 (finland) calculateWater() returns 0
\* liters for every workload and hour 0..23, and the flows of a simulation
\* hold no water flow.
NoWaterForZeroWue ==
  (ZeroWue /\ currentHour \in 0..23) =>
    /\ (call.op = "calculateWater" /\ ~Falsy(currentWorkload))
         => (result.kind = "ok" /\ result.liters = Num(0))
    /\ RanSimulation
         => /\ result.water.liters = Num(0)
            /\ \A i \in 1..Len(ReturnedFlows) : ReturnedFlows[i].type # "water"

\* runSimulation() has returned for the finland datacenter and the biometric
\* workload, whose electricity is not 0
RanOnFinland ==
  /\ RanSimulation
  /\ currentDatacenter = Finland
  /\ currentWorkload = WORKLOADS.biometric
  /\ currentHour \in 0..23
  /\ Positive(result.electricity.withOverhead)
  /\ Len(ReturnedFlows) = 11

\* gridMix[category], 0 for an absent category
Share(gridMix, category) ==
  IF category \in DOMAIN gridMix THEN gridMix[category] ELSE Num(0)

\* the fossil percentages of the reference datacenters
ReferenceFossilPercent == [arizona |-> 45, finland |-> 18, singapore |-> 95, ireland |-> 59]

\* C15: fossilPercent lies in [0,100] and is 100 times the sum of the
\* datacenter's shares of natural_gas, coal, peat and oil, absent ones
\* counting 0: 45 for arizona, 18 for finland, 95 for singapore, 59 for
\* ireland (to six decimal places), whatever the workload and the hour.
FossilPercentOfGrid ==
  (call.op = "calculateElectricity" /\ result.kind = "ok") =>
    LET gridMix == currentDatacenter.energy.gridMix
        shares == Add(Add(Add(Share(gridMix, "natural_gas"), Share(gridMix, "coal")),
                          Share(gridMix, "peat")),
                      Share(gridMix, "oil"))
    IN  /\ Leq(Num(0), result.fossilPercent) /\ Leq(result.fossilPercent, Num(100))
        /\ result.fossilPercent = Mul(shares, Num(100))
        /\ ToFixed(result.fossilPercent, 6) = Num(ReferenceFossilPercent[currentDatacenter.id])

\* calculateElectricity() has returned 59 percent for ireland, whose grid mix
\* has peat, at an hour other than the constructor's
IrelandFossilPercent ==
  /\ call.op = "calculateElectricity"
  /\ result.kind = "ok"
  /\ currentDatacenter = Ireland
  /\ currentHour = 3
  /\ result.fossilPercent = Num(59)

RECURSIVE SumOfShares(_, _)
\* the sum of the grid mix's shares of the given types
SumOfShares(gridMix, types) ==
  IF types = {} THEN Num(0)
  ELSE LET type == CHOOSE x \in types : TRUE
       IN  Add(SumOfShares(gridMix, types \ {type}), gridMix[type])

\* the bounds on PUE, WUE, aquifer depletion and the grid mix
EnergyAndWaterBounds(dc) ==
  /\ Leq(Num(1), dc.energy.pue)
  /\ Leq(Num(0), dc.water.wue)
  /\ InUnitInterval(dc.water.aquiferDepletion)
  /\ ToFixed(SumOfShares(dc.energy.gridMix, DOMAIN dc.energy.gridMix), 6) = Num(1)

\* C16, as stated: every datacenter record the engine holds has PUE >= 1,
\* heat penalty >= 1, WUE >= 0, aquifer depletion within [0,1] and grid-mix
\* shares summing to 1.
DataModelBounds ==
  ~Falsy(currentDatacenter) =>
    /\ EnergyAndWaterBounds(currentDatacenter)
    /\ Leq(Num(1), currentDatacenter.climate.heatPenalty)

\* C16, amended: every datacenter record the engine holds has PUE >= 1,
\* WUE >= 0, aquifer depletion within [0,1], grid-mix shares summing to 1,
\* and a positive heat penalty that is >= 1 except for finland (0.85).
DataModelBoundsWithFreeCooling ==
  ~Falsy(currentDatacenter) =>
    /\ EnergyAndWaterBounds(currentDatacenter)
    /\ Positive(currentDatacenter.climate.heatPenalty)
    /\ \/ Leq(Num(1), currentDatacenter.climate.heatPenalty)
       \/ /\ currentDatacenter.id = "finland"
          /\ currentDatacenter.climate.heatPenalty = Dec(85, 0 - 2)

\* configure({datacenter: 'finland'}) has configured the record with the
\* heat penalty 0.85
ConfiguredFinland ==
  /\ call.op = "configure"
  /\ DOMAIN call.args = {"datacenter"}
  /\ call.args.datacenter = "finland"
  /\ currentDatacenter = DATACENTERS.finland
  /\ currentDatacenter.climate.heatPenalty = Dec(85, 0 - 2)

\* the three sequences of TIME_MODIFIERS
TimeModifiers == << waterUsageByHour, carbonIntensityByHour, demandByHour >>

\* each sequence has 24 entries, all positive, and the lookup of every hour
\* 0..23 finds a positive multiplier
TwentyFourPositiveEntries ==
  \A i \in 1..3 :
    /\ Len(TimeModifiers[i]) = 24
    /\ \A j \in 1..Len(TimeModifiers[i]) : TimeModifiers[i][j] > 0
    /\ \A hour \in 0..23 : Positive(Index(TimeModifiers[i], hour))

\* C17: each of the three time-modifier sequences has exactly 24 entries, all
\* positive, so the lookups of calculateElectricity(), calculateWater() and
\* calculateEmissions() at every hour 0..23 yield a positive multiplier.
TimeModifiersCoverTheDay ==
  /\ TwentyFourPositiveEntries
  /\ (currentHour \in 0..23 /\ result.kind = "ok") =>
       /\ call.op = "calculateElectricity" => Positive(result.withOverhead)
       /\ call.op = "calculateWater" => Positive(result.hourModifier)
       /\ call.op = "calculateEmissions" => Positive(result.carbonIntensity)

\* calculateWater() has read the first entry of waterUsageByHour, 0.6, at
\* hour 0
WaterAtMidnight ==
  /\ call.op = "calculateWater"
  /\ result.kind = "ok"
  /\ currentHour = 0
  /\ result.hourModifier = Dec(6, 0 - 1)

\* the electricity result of the call, if it has one
ElectricityResult ==
  IF call.op = "runSimulation" THEN result.electricity ELSE result

\* the call is one that has returned an electricity result
ReturnedElectricity ==
  result.kind = "ok" /\ call.op \in {"calculateElectricity", "runSimulation"}

\* C18: with workload image, datacenter arizona and hour 15 the electricity
\* result has baseKwh 0.29, withOverhead 0.609 and fossilPercent 45 (to six
\* decimal places).
ImageOnArizonaAtFifteen ==
  (/\ ReturnedElectricity
   /\ currentWorkload = WORKLOADS.image
   /\ currentDatacenter = DATACENTERS.arizona
   /\ currentHour = 15) =>
    /\ ToFixed(ElectricityResult.baseKwh, 6) = Dec(29, 0 - 2)
    /\ ToFixed(ElectricityResult.withOverhead, 6) = Dec(609, 0 - 3)
    /\ ToFixed(ElectricityResult.fossilPercent, 6) = Num(45)

\* runSimulation() has returned for phoenix, image, arizona at hour 15
RanPhoenixScenario ==
  /\ RanSimulation
  /\ currentCity = CITIES.phoenix
  /\ currentWorkload = WORKLOADS.image
  /\ currentDatacenter = DATACENTERS.arizona
  /\ currentHour = 15
  /\ result.electricity.pue = Dec(125, 0 - 2)
  /\ result.electricity.heatPenalty = Dec(14, 0 - 1)

\* runSimulation() has returned for the city phoenix and the datacenter arizona
RanPhoenixToArizona ==
  RanSimulation /\ currentCity = CITIES.phoenix /\ currentDatacenter = DATACENTERS.arizona

\* C19, as stated: the distance runSimulation() reports from phoenix to the
\* arizona datacenter is approximately 51 km (within a tenth of it).
DistanceAboutFiftyOne ==
  RanPhoenixToArizona =>
    /\ Leq(Dec(459, 0 - 1), result.distance)
    /\ Leq(result.distance, Dec(561, 0 - 1))

\* C19, amended: the distance runSimulation() reports from phoenix to the
\* arizona datacenter is approximately 15 km: between 14.5 and 15.5 km,
\* reported as 15 in the narrative data.
DistanceAboutFifteen ==
  RanPhoenixToArizona =>
    /\ Leq(Dec(145, 0 - 1), result.distance)
    /\ Leq(result.distance, Dec(155, 0 - 1))
    /\ result.narrativeData.distanceKm = Num(15)

\* runSimulation() has reported a distance below 16 km from phoenix to arizona
PhoenixNearArizona ==
  /\ RanPhoenixToArizona
  /\ result.city.coords = Coord(334484, 0 - 1120740)
  /\ result.datacenter.coords = Coord(333942, 0 - 1119261)
  /\ Less(result.distance, Num(16))

\* C20: calculateDistance(a, b) equals calculateDistance(b, a), and
\* calculateDistance(a, a) is 0.
DistanceSymmetric ==
  call.op = "calculateDistance" =>
    /\ result = calculateDistance(call.args[2], call.args[1])
    /\ call.args[1] = call.args[2] => result = Num(0)

\* calculateDistance() has returned a positive distance from dublin to the
\* singapore datacenter
DublinToSingapore ==
  /\ call.op = "calculateDistance"
  /\ call.args = << CITIES.dublin.coords, DATACENTERS.singapore.coords >>
  /\ Positive(result)
  /\ Less(Num(10000), result)

\* (a - b) / b x 100
PercentOver(a, b) == Mul(Div(Sub(a, b), b), Num(100))

\* the run of the configured city, workload and hour on the datacenter id
RunOn(id) == Simulate([Cfg EXCEPT !.datacenter = DATACENTERS[id]])

\* C21: the comparison of compareDatacenters(idA, idB) holds
\* waterDifference, emissionsDifference and electricityDifference, each
\* (value for idA - value for idB) / (value for idB) x 100 over the water
\* liters, emissions grams and overhead-adjusted kWh of the two runs; dc1 and
\* dc2 are the runs for idA and idB, both with the configured city, workload
\* and hour.
ComparisonRelativeToSecond ==
  (call.op = "compareDatacenters" /\ result.kind = "ok") =>
    /\ DOMAIN result.comparison =
         {"waterDifference", "emissionsDifference", "electricityDifference"}
    /\ result.dc1 = RunOn(call.args[1])
    /\ result.dc2 = RunOn(call.args[2])
    /\ result.dc1.datacenter = DATACENTERS[call.args[1]]
    /\ result.dc2.datacenter = DATACENTERS[call.args[2]]
    /\ \A run \in {result.dc1, result.dc2} :
         run.city = currentCity /\ run.workload = currentWorkload
           /\ run.hour = currentHour
    /\ result.comparison.waterDifference =
         PercentOver(result.dc1.water.liters, result.dc2.water.liters)
    /\ result.comparison.emissionsDifference =
         PercentOver(result.dc1.emissions.grams, result.dc2.emissions.grams)
    /\ result.comparison.electricityDifference =
         PercentOver(result.dc1.electricity.withOverhead,
                     result.dc2.electricity.withOverhead)

\* compareDatacenters('arizona', 'ireland') has returned three finite deltas
\* that are not zero
ComparedArizonaWithIreland ==
  /\ call.op = "compareDatacenters"
  /\ call.args = << "arizona", "ireland" >>
  /\ result.kind = "ok"
  /\ \A delta \in Deltas : IsFin(delta) /\ delta # Num(0)

\* what the operation op returns on the configuration cfg
Returned(op, args, cfg) ==
  CASE op = "calculateElectricity" -> calculateElectricity(cfg)
    [] op = "calculateWater" -> calculateWater(cfg)
    [] op = "calculateEmissions" -> calculateEmissions(cfg)
    [] op = "getMaterials" -> getMaterials
    [] op = "runSimulation" -> Simulate(cfg)
    [] op = "compareDatacenters" -> compareDatacenters(cfg, args[1], args[2]).outcome

\* C22: calculateElectricity, calculateWater, calculateEmissions,
\* getMaterials and runSimulation leave city, workload, datacenter and hour
\* unchanged, compareDatacenters leaves city, workload and hour unchanged, and
\* the same operation called again on the configuration a call left returns
\* an equal result.
CalculatorsArePure ==
  [][/\ call'.op \in {"calculateElectricity", "calculateWater", "calculateEmissions",
                      "getMaterials", "runSimulation"}
          => /\ config' = config
             /\ result' = Returned(call'.op, call'.args, Cfg')
     /\ call'.op = "compareDatacenters"
          => /\ currentCity' = currentCity
             /\ currentWorkload' = currentWorkload
             /\ currentHour' = currentHour
             /\ (currentDatacenter' = currentDatacenter
                   => result' = Returned(call'.op, call'.args, Cfg'))]_vars

\* calculateElectricity() has returned a result at hour 7 on an engine with
\* the lagos city, the biometric workload and the singapore datacenter
CalculatedElectricityInLagos ==
  /\ call.op = "calculateElectricity"
  /\ result.kind = "ok"
  /\ currentCity = CITIES.lagos
  /\ currentWorkload = WORKLOADS.biometric
  /\ currentDatacenter = DATACENTERS.singapore
  /\ currentHour = 7

\* the session energy the claim assigns to each workload identifier
SessionKwh(workload) ==
  IF workload.id = "chatbot"
    THEN Mul(workload.perSession.queries, workload.perSession.kwhPerQuery)
  ELSE IF workload.id = "image"
    THEN Mul(workload.perSession.images, workload.perSession.kwhPerImage)
  ELSE IF workload.id \in {"traffic", "biometric"}
    THEN workload.perSession.kwhPerHour
  ELSE Num(0)

\* the workload records of the table under an identifier the switch does not
\* list
RelabelledWorkloads ==
  { [WORKLOADS[key] EXCEPT !.id = UnknownId] : key \in DOMAIN WORKLOADS }

\* C23: with workload and datacenter set, calculateElectricity() returns
\* withOverhead = baseKwh x PUE x heat penalty x demandByHour[hour], where
\* baseKwh is queries x kwhPerQuery for chatbot, images x kwhPerImage for
\* image and kwhPerHour for traffic and biometric; a workload record with any
\* other identifier yields baseKwh 0.
ElectricityFromMultipliers ==
  /\ (call.op = "calculateElectricity" /\ ~Falsy(currentWorkload)
        /\ ~Falsy(currentDatacenter)) => result.kind = "ok"
  /\ ReturnedElectricity =>
       /\ ElectricityResult.baseKwh = SessionKwh(currentWorkload)
       /\ ElectricityResult.withOverhead =
            Mul(Mul(Mul(SessionKwh(currentWorkload), currentDatacenter.energy.pue),
                    currentDatacenter.climate.heatPenalty),
                Index(demandByHour, currentHour))
       /\ \A workload \in RelabelledWorkloads :
            calculateElectricity([Cfg EXCEPT !.workload = workload]).baseKwh = Num(0)

\* calculateElectricity() has returned for the traffic workload on the
\* arizona datacenter at hour 20, with a positive overhead-adjusted energy
TrafficOnArizonaAtTwenty ==
  /\ call.op = "calculateElectricity"
  /\ currentWorkload = WORKLOADS.traffic
  /\ currentDatacenter = DATACENTERS.arizona
  /\ currentHour = 20
  /\ result.kind = "ok"
  /\ Positive(result.withOverhead)
  /\ Less(result.baseKwh, result.withOverhead)

\* the water result of the call, if it has one
WaterResult == IF call.op = "runSimulation" THEN result.water ELSE result

\* the call is one that has returned a water result
ReturnedWater == result.kind = "ok" /\ call.op \in {"calculateWater", "runSimulation"}

\* C24: with workload and datacenter set, calculateWater() returns liters =
\* calculateElectricity().withOverhead x WUE x waterUsageByHour[hour] and
\* litersPerSecond = annualWithdrawal / 31,536,000, the latter the same for
\* every workload and every hour.
WaterFromElectricity ==
  /\ (call.op = "calculateWater" /\ ~Falsy(currentWorkload)
        /\ ~Falsy(currentDatacenter)) => result.kind = "ok"
  /\ ReturnedWater =>
       /\ WaterResult.liters =
            Mul(Mul(calculateElectricity(Cfg).withOverhead, currentDatacenter.water.wue),
                Index(waterUsageByHour, currentHour))
       /\ WaterResult.litersPerSecond =
            Div(currentDatacenter.water.annualWithdrawal, Num(31536000))
       /\ \A key \in DOMAIN WORKLOADS : \A hour \in 0..23 :
            calculateWater([Cfg EXCEPT !.workload = WORKLOADS[key],
                                       !.hour = hour]).litersPerSecond
              = WaterResult.litersPerSecond

\* calculateWater() has returned a positive number of liters for the chatbot
\* workload on the singapore datacenter at hour 3, where the modifier is 0.5
WaterOnSingaporeAtThree ==
  /\ call.op = "calculateWater"
  /\ currentWorkload = WORKLOADS.chatbot
  /\ currentDatacenter = DATACENTERS.singapore
  /\ currentHour = 3
  /\ result.kind = "ok"
  /\ Positive(result.liters)
  /\ result.hourModifier = Dec(5, 0 - 1)
  /\ Positive(result.litersPerSecond)

\* the emissions result of the call, if it has one
EmissionsResult == IF call.op = "runSimulation" THEN result.emissions ELSE result

\* the call is one that has returned an emissions result
ReturnedEmissions ==
  result.kind = "ok" /\ call.op \in {"calculateEmissions", "runSimulation"}

\* the datacenter's base carbon intensity x carbonIntensityByHour[hour]
AdjustedIntensity ==
  Mul(currentDatacenter.energy.carbonIntensity,
      Index(carbonIntensityByHour, currentHour))

\* C25: with workload and datacenter set, calculateEmissions() returns
\* carbonIntensity = the datacenter's base carbon intensity x
\* carbonIntensityByHour[hour], grams = calculateElectricity().withOverhead x
\* that adjusted intensity, and annualTonsCO2 = grams x 35,040 / 1,000,000.
EmissionsFromElectricity ==
  /\ (call.op = "calculateEmissions" /\ ~Falsy(currentWorkload)
        /\ ~Falsy(currentDatacenter)) => result.kind = "ok"
  /\ ReturnedEmissions =>
       /\ EmissionsResult.carbonIntensity = AdjustedIntensity
       /\ EmissionsResult.grams =
            Mul(calculateElectricity(Cfg).withOverhead, AdjustedIntensity)
       /\ EmissionsResult.annualTonsCO2 =
            Div(Mul(EmissionsResult.grams, Num(35040)), Num(1000000))

\* calculateEmissions() has returned positive grams and annual tons for the
\* image workload on the ireland datacenter at hour 20
EmissionsOnIrelandAtTwenty ==
  /\ call.op = "calculateEmissions"
  /\ currentWorkload = WORKLOADS.image
  /\ currentDatacenter = DATACENTERS.ireland
  /\ currentHour = 20
  /\ result.kind = "ok"
  /\ Positive(result.grams)
  /\ Positive(result.annualTonsCO2)
  /\ result.carbonIntensity # result.baseCarbonIntensity

------------------------------------------------------------------------------
(* Properties of the globe, the UI controller and the demo *)

\* the flow list last handed to visualizeFlows: UIController.runSimulation is
\* its only caller, with the flows of the results it has just stored
VisualizedFlows ==
  IF Falsy(ui.simulationResults) THEN << >> ELSE ui.simulationResults.flows

\* flowLines holds a visible line drawn for the flow
HasRenderedLine(flow) ==
  \E i \in 1..Len(globe.flowLines) :
    /\ globe.flowLines[i].type = flow.type
    /\ globe.flowLines[i].curve = << flow.from, flow.to >>
    /\ globe.flowLines[i].visible

\* C26: after visualizeFlows(flows) and any sequence of setLayerVisibility
\* and setAllLayersVisibility calls, each flow of flows whose layer is
\* currently set visible has a rendered line, and each 'data' flow has one.
VisibleFlowsAreRendered ==
  \A i \in 1..Len(VisualizedFlows) :
    (VisualizedFlows[i].type = "data" \/ globe.layerVisibility[VisualizedFlows[i].type])
      => HasRenderedLine(VisualizedFlows[i])

\* C27: the demo plays the scenarios in table order, wrapping around after
\* the last one, and every simulation that the k-th played scenario triggers
\* is run with that scenario's city, workload, datacenter and hour.
DemoRunsItsScenario ==
  ~DemoOff =>
    /\ demo.currentScenario = demo.scenario + 1
    /\ ui.selectedCity = demoScenarios[(demo.scenario % 4) + 1].city
    /\ result # NoResult =>
         /\ result.kind = "ok"
         /\ result.city = CITIES[demoScenarios[(demo.scenario % 4) + 1].city]
         /\ result.workload = WORKLOADS[demoScenarios[(demo.scenario % 4) + 1].workload]
         /\ result.datacenter =
              DATACENTERS[demoScenarios[(demo.scenario % 4) + 1].datacenter]
         /\ result.hour = demoScenarios[(demo.scenario % 4) + 1].hour

\* C28: through the UI controller every call that reaches
\* simulationEngine.runSimulation() finds city, workload and datacenter
\* configured, so that the configuration error is never raised; a click on the
\* run button with no city or no workload selected does not call the engine
\* and leaves the previous simulation results unchanged.
EngineErrorUnreachable ==
  /\ [](result # NoResult => (FullyConfigured /\ result.kind = "ok"))
  /\ [][(call'.op = "clickRun"
           /\ (ui.selectedCity = NullId \/ ui.selectedWorkload = NullId))
          => /\ result' = NoResult
             /\ config' = config
             /\ ui'.simulationResults = ui.simulationResults]_vars

\* moving the time slider to 23 has re-run the simulation of an earlier run
SliderReranAtLastHour ==
  /\ call.op = "inputTimeSlider"
  /\ result.kind = "ok"
  /\ result.hour = 23
  /\ ui.simulationResults = result
  /\ FullyConfigured

\* every layer is enabled in the controller
AllEnabled == \A layer \in LayerNames : ui.activeLayers[layer]

\* C29: after any sequence of clicks on the four layer buttons and the 'all'
\* button, the controller's activeLayers flag of each layer equals the globe's
\* layerVisibility flag of that layer, and the 'all' button is marked active
\* exactly when all four layers are enabled; no other event changes the flags
\* or the marks.
LayersMatchGlobe ==
  /\ [](/\ DOMAIN globe.layerVisibility = LayerNames
        /\ \A layer \in LayerNames :
             ui.activeLayers[layer] = globe.layerVisibility[layer]
        /\ call.op = "clickLayer" => ("all" \in ui.active <=> AllEnabled))
  /\ [][call'.op # "clickLayer"
          => /\ ui'.active = ui.active
             /\ ui'.activeLayers = ui.activeLayers
             /\ globe'.layerVisibility = globe.layerVisibility]_vars

\* a click on the water button has enabled the water layer again, which
\* leaves the materials layer the only one disabled
WaterEnabledAgain ==
  /\ call.op = "clickLayer"
  /\ call.args = << "water" >>
  /\ ui.activeLayers.water
  /\ globe.layerVisibility.water
  /\ ~ui.activeLayers.materials
  /\ ~globe.layerVisibility.materials
  /\ ui.activeLayers.electricity /\ ui.activeLayers.emissions
  /\ ui.active = {"water"}

\* the types of the lines the globe holds
DrawnTypes == { globe.flowLines[i].type : i \in 1..Len(globe.flowLines) }

\* the flows of the list last visualized whose type has lines on the globe
DrawnFlows == SelectSeq(VisualizedFlows, LAMBDA flow : flow.type \in DrawnTypes)

\* the particles the globe holds
Particles ==
  IF globe.flowParticles.kind = "array" THEN globe.flowParticles.items ELSE << >>

\* C30: whatever simulations have been visualized, flowLines holds only
\* lines of the most recent visualizeFlows call, at most one per entry of its
\* flow list, markers holds the two markers of each of these lines,
\* flowParticles the 20 particles of each of them, and clearFlows leaves all
\* three empty.
FlowObjectsDoNotAccumulate ==
  /\ Len(globe.flowLines) = Len(DrawnFlows)
  /\ \A i \in 1..Len(globe.flowLines) :
       /\ globe.flowLines[i].type = DrawnFlows[i].type
       /\ globe.flowLines[i].curve = << DrawnFlows[i].from, DrawnFlows[i].to >>
       /\ globe.markers[2 * i - 1].coords = DrawnFlows[i].from
       /\ globe.markers[2 * i].coords = DrawnFlows[i].to
       /\ \A k \in (20 * (i - 1) + 1)..(20 * i) :
            Particles[k].curve = globe.flowLines[i].curve
  /\ Len(globe.markers) = 2 * Len(globe.flowLines)
  /\ Len(Particles) = 20 * Len(globe.flowLines)
  /\ clearFlows(globe).flowLines = << >>
  /\ clearFlows(globe).markers = << >>
  /\ clearFlows(globe).flowParticles \in {UndefinedObj, Array(<< >>)}

\* moving the time slider has visualized the flows of a second simulation
\* run, with a line for each of them
VisualizedAgain ==
  /\ call.op = "inputTimeSlider"
  /\ result.kind = "ok"
  /\ Len(result.flows) > 0
  /\ Len(globe.flowLines) = Len(result.flows)
  /\ Len(globe.markers) = 2 * Len(result.flows)
  /\ Len(Particles) = 20 * Len(result.flows)

====
